---- MODULE Spec2Model ----
(***************************************************************************)
(* dpmutil: the I2C hardware abstraction layer (I2CHAL.c), the Platform    *)
(* MCU and SYZYGY wrappers built on it (PlatformMCU.c, syzygy.c), and the   *)
(* SYZYGY DNA header / string readers.                                      *)
(*                                                                          *)
(* I2CHALRead and I2CHALWrite are modelled one transport call per step, so  *)
(* that the outcome of every ioctl / write / read / XIic_* / XIicPs_* call  *)
(* is a choice of the environment.  The three transport backends selected   *)
(* by conditional compilation are the values of the variable backend.       *)
(***************************************************************************)
EXTENDS Integers, Sequences, FiniteSets, TLC

VARIABLES
    backend,    \* which #if branch the build selected
    layout,     \* where the build placed what follows rgbSnd in I2CHALWrite
    hal,        \* the frame of the running I2CHALRead / I2CHALWrite call
    bus,        \* what happened on the transport (the environment's view)
    dna,        \* the frame of the running SyzygyReadDNAHeader / Strings call
    heap,       \* a caller's SzgDnaStrings and the buffers malloc handed out
    crcio,      \* a buffer handed to SyzygyComputeCRC and what came back
    cal,        \* a calibration value handed to a coefficient function
    zmod,       \* the frame of a Zmod identification or calibration-read call
    cmd,        \* the frame of a running dpmutilF* command
    peer        \* the I2CHALRead frame of a second thread, while it is not running

vars == <<backend, layout, hal, bus, dna, heap, crcio, cal, zmod, cmd, peer>>

\* The state of the I2C engine and of the DNA readers.
engine == <<backend, layout, hal, bus, dna>>

\* The state of the heap, CRC, calibration, Zmod and command developments,
\* and the frame of the second thread.
others == <<heap, crcio, cal, zmod, cmd, peer>>

(***************************************************************************)
(* Widths, program constants and bounds                                     *)
(***************************************************************************)
ByteMod == 256          \* BYTE is unsigned char
WordMod == 65536        \* WORD is unsigned short

cbReadMax == 32         \* the literal cap of I2CHALRead
cbSndBuf == 32          \* BYTE rgbSnd[32] in I2CHALWrite
cbPmcuRxMaxPmcu == 6    \* cbPmcuRxMax of PlatformMCU.c
cbPmcuRxMaxSzg == 34    \* cbPmcuRxMax of syzygy.c
cbSyzygyDnaHeader == 40
addrDnaStart == 32768   \* 0x8000
addrAdcFactCalStart == 33024        \* 0x8100
addrAdcUserCalStart == 28672        \* 0x7000
addrDigitizerFactCalStart == 33024  \* 0x8100
addrDigitizerUserCalStart == 28672  \* 0x7000
cbZmodCal == 128        \* sizeof(ZMOD_ADC_CAL), sizeof(ZMOD_DIGITIZER_CAL)

\* Platform MCU register map (PlatformMCU.h)
regaddrPlatformConfig == 32772      \* 0x8004
regaddrFanCount == 32775            \* 0x8007
regaddrVadjGroupCount == 32778      \* 0x800A
regaddrFan1Capabilities == 32792    \* 0x8018
regaddrFan1Config == 32793          \* 0x8019
regaddrFan2Capabilities == 32796    \* 0x801C
regaddrVadjAVoltage == 32840        \* 0x8048
regaddrVadjAOverride == 32842       \* 0x804A
regaddrVadjBVoltage == 32848        \* 0x8050
regaddrVadjStatus == 32904          \* 0x8088
offsetVadjReg == regaddrVadjBVoltage - regaddrVadjAVoltage
offsetFanReg == regaddrFan2Capabilities - regaddrFan1Capabilities

MaxRead == 70           \* longest read length explored by the engine spec
MaxStr == 33            \* longest DNA string length explored
MaxTx == 256            \* write frames explored per operation
MaxShort == 2           \* short data transfers explored per operation
MaxHeapCalls == 3       \* allocating SyzygyReadDNAStrings calls explored
MaxCrcLen == 3          \* longest buffer over the CRC alphabet explored
MaxGainEighths == 16    \* largest stored gain explored, in eighths
MaxOffsetEighths == 16  \* largest stored offset explored, in eighths
MaxOffsetQuarters == 10 \* largest small stored offset explored, in units of 2^-19
MaxPorts == 2           \* SmartVIO ports explored by dpmutilFEnum

Backends == {"linux", "zynq", "xiic"}

\* Start addresses explored: the DNA base, and one that wraps past 0xFFFF.
StartAddrs == {addrDnaStart, 65530}

\* Caps a caller of the public I2CHALWrite may pass besides the two wrappers'.
DirectCaps == {1, 3}

\* Contents an uninitialised or freshly allocated buffer may hold.
GarbageBytes == {0, 165}

Min(a, b) == IF a < b THEN a ELSE b

CeilDiv(a, b) == (a + b - 1) \div b

(***************************************************************************)
(* The slave device: a byte-addressed memory with an address pointer that   *)
(* the address phase sets and every data byte advances.                     *)
(***************************************************************************)
FlatByte(a) == ((a % WordMod) * 7 + ((a % WordMod) \div 256) * 3 + 1) % ByteMod

\* A 40-byte SYZYGY DNA header whose trailing CRC-16 is right: cbDna 48,
\* cbDnaHeader 40, DNA version 1.0, string lengths 3, 2, 0, 1, 2.
GoodHeader ==
    << 48, 0, 40, 0, 1, 0, 1, 0, 0, 0, 100, 0, 50, 0, 0, 0, 120, 0, 180, 0,
       0, 0, 0, 0, 0, 0, 0, 0, 0, 0, 0, 0, 3, 2, 0, 1, 2, 0, 210, 162 >>

\* The same header with one bit of the 3V3 current field flipped.
BadHeader == [ GoodHeader EXCEPT ![10] = 4 ]

Images == {"flat", "good", "bad"}

\* Images for the calibration readers: "zero" holds 0 everywhere, so both
\* calibration records are all-zero records with the right crc byte 0;
\* "dirty" is "zero" with one byte of the factory record changed.
CalImages == {"flat", "zero", "dirty"}

\* Byte at address a of the slave's memory under image img.
PodByte(img, a) ==
    LET o == (a % WordMod) - addrDnaStart
    IN  IF img = "pmcu"
        THEN (IF a % WordMod \in DOMAIN cmd.dev THEN cmd.dev[a % WordMod]
              ELSE FlatByte(a))
        ELSE IF img = "zero" THEN 0
        ELSE IF img = "dirty" THEN (IF a % WordMod = addrAdcFactCalStart + 5 THEN 1 ELSE 0)
        ELSE IF img # "flat" /\ 0 <= o /\ o < cbSyzygyDnaHeader
        THEN (IF img = "good" THEN GoodHeader[o + 1] ELSE BadHeader[o + 1])
        ELSE FlatByte(a)

\* The caller's write buffer: byte i of pbWrite.  A dpmutil command hands
\* over the register value it has put together.
SrcByte(i) == IF cmd.pc = "run" THEN cmd.out[i + 1] ELSE (i * 5 + 3) % ByteMod

\* rgbSnd[0] = addr >> 8; rgbSnd[1] = addr & 0xFF
AddrBytes(addr) == << addr \div 256, addr % 256 >>

\* The 16-bit address a 2-byte big-endian prefix denotes.
AddrOf(b) == b[1] * 256 + b[2]


(***************************************************************************)
(* Frames                                                                   *)
(***************************************************************************)
HalIdle ==
    [ pc |-> "idle", fn |-> "none", entry |-> "none",
      addr0 |-> 0, cbReq |-> 0, cb |-> 0, cap |-> 0, uWait |-> 0,
      addr |-> 0, cbDone |-> 0, cbTrans |-> 0, ipb |-> 0,
      rgbSnd |-> << >>, buf |-> << >>,
      pcbNull |-> FALSE, ret |-> "none", cbOut |-> -1 ]

BusIdle ==
    [ img |-> "flat",      \* which memory image the slave holds
      devPtr |-> 0,        \* the slave's address pointer
      nAddr |-> 0,         \* address phases / write frames put on the bus
      nData |-> 0,         \* data phases that the code took as successful
      xfer |-> 0,          \* data bytes really moved by those transactions
      nDelay |-> 0,        \* nanosleep / usleep calls
      nCall |-> 0,         \* transport calls of every kind
      nShort |-> 0,        \* data transfers that moved fewer bytes than asked
      failed |-> FALSE,    \* a transport call has failed
      oob |-> FALSE,       \* a store went past rgbSnd[31]
      tx |-> [ kind |-> "none", frame |-> << >>, off |-> 0, before |-> 0,
               len |-> 0, got |-> 0 ] ]

DnaIdle ==
    [ pc |-> "idle", fn |-> "none", ret |-> "none",
      fCheckCrc |-> FALSE, hdrNull |-> FALSE, readOk |-> FALSE,
      hdr0 |-> << >>,      \* *pszgdnahdr when SyzygyReadDNAHeader was entered
      hdr |-> << >>,       \* *pszgdnahdr now
      raw |-> << >>,       \* rgbDnaBuf
      cbDnaHeader |-> 0, lens |-> << >>, idx |-> 0, addrRead |-> 0,
      strs |-> << >>,      \* the five string buffers, in field order
      reqs |-> << >>,      \* the reads issued so far: address and length
      txs |-> << >> ]      \* bus transactions each finished read took

\* A zero-initialised SzgDnaStrings (0 is NULL) and an empty heap.
HeapIdle ==
    [ pc |-> "idle", fn |-> "none", ret |-> "none",
      argNull |-> FALSE,                \* the call was handed a NULL pointer
      sz |-> << 0, 0, 0, 0, 0 >>,       \* the five fields of the SzgDnaStrings
      live |-> { },                     \* buffers malloc'd and not yet freed
      next |-> 1,                       \* the next buffer malloc hands out
      calls |-> 0,                      \* SyzygyReadDNAStrings calls that allocated
      fault |-> "none" ]                \* a free of a dead buffer, a write through NULL

\* No buffer has been handed to SyzygyComputeCRC.
CrcIdle ==
    [ pc |-> "idle",
      buf |-> << >>,      \* the buffer pbBuf points to
      out |-> 0,          \* what SyzygyComputeCRC returned for buf
      was |-> 0,          \* what it had returned before a bit of buf was flipped
      bit |-> 0 ]         \* the bit that was flipped

\* No Zmod function has been called.
ZmodIdle ==
    [ pc |-> "idle", fn |-> "none", ret |-> FALSE,
      Pdid |-> << 0, 0 >>,       \* a DWORD as its high and low 16-bit halves
      hz |-> 0,                  \* a frequency-step byte
      variant |-> "none",        \* the variant handed to a resolution function
      family |-> "unset",        \* *pFamily
      pVariant |-> "unset",      \* *pVariant
      resolution |-> 0,          \* *pResolution
      mhz |-> [ k |-> "fin", n |-> 0, d |-> 1 ],
      fact |-> << >>,            \* *pFactoryCal
      user |-> << >>,            \* *pUserCal
      reads |-> << >> ]          \* the reads issued: address, length, result

\* No dpmutil command is running.
CmdIdle ==
    [ pc |-> "idle", fn |-> "none", ret |-> FALSE,
      ctl |-> "none",       \* the I2C controller: "none", "open", "closed"
      id |-> 0,             \* chanid / fanid
      set |-> << >>,        \* the set-flags, in the order of the parameters
      val |-> << >>,        \* the values that go with them
      dev |-> << >>,        \* the Platform MCU's registers, by address
      dev0 |-> << >>,       \* the registers when the command was called
      prog |-> << >>,       \* the reads and writes of the command, in order
      i |-> 0,              \* the one in progress
      cnt |-> 0,            \* cvadj / cfan
      cur |-> << >>,        \* the register as first read
      out |-> << >>,        \* the register as written
      back |-> << >>,       \* the register as read back
      ops |-> << >> ]       \* the bus operations that have returned

\* No value has been handed to a coefficient function.
CalIdle ==
    [ pc |-> "idle", fn |-> "none",
      fpu |-> "x86",      \* the processor the utility was built for
      rec |-> << >>,      \* the Calibration Record read from flash
      hi |-> FALSE,       \* fHighGain
      fval |-> [ k |-> "fin", n |-> 0, d |-> 1 ],
      ival |-> 0,         \* ival before the mask
      out |-> 0,          \* the value returned
      ret |-> << >> ]     \* *pReturn

(***************************************************************************)
(* I2CHALRead                                                               *)
(***************************************************************************)
\* cbTrans = cbRead - cbRecv; if ( 32 < cbTrans ) cbTrans = 32;
RdTransLen(cbRead, cbRecv) == Min(cbRead - cbRecv, cbReadMax)

\* What the data-phase call can return, as a byte count; 0 stands for every
\* return the code takes as a failure (read() <= 0, XIic_Recv() = 0,
\* XIicPs_MasterRecvPolled() != XST_SUCCESS).  The Zynq call is all or nothing.
ShortCounts(n) == { c \in {1, n - 1} : 0 < c /\ c < n }

RecvOutcomes(be, n, nShort) ==
    {0, n} \cup (IF be # "zynq" /\ nShort < MaxShort THEN ShortCounts(n) ELSE {})

\* How far cbRecv and addrRead move after a data phase that returned r > 0:
\* the Linux branch adds cb, the two bare-metal branches add cbTrans.
RdAdvance(be, r, cbTrans) == IF be = "linux" THEN r ELSE cbTrans

\* Variant: a failed transport call is tried again instead of leaving.
ErrorExitRetry(h) ==
    [ h EXCEPT !.pc = IF h.fn = "read" THEN "rd_addr" ELSE "wr_stage" ]

\* lErrorExit: report cbRecv / cbSent and return fFalse.
ErrorExit(h) ==
    [ h EXCEPT !.pc = "ret", !.ret = FALSE,
               !.cbOut = IF h.pcbNull THEN -1 ELSE h.cbDone ]

\* The normal exit after the loop.
NormalExit(h) ==
    [ h EXCEPT !.pc = "ret", !.ret = TRUE,
               !.cbOut = IF h.pcbNull THEN -1 ELSE h.cbDone ]

\* Variant: the loop body runs once before the length is looked at.
RdLoopAtLeastOnce(h) ==
    IF h.cbDone < h.cb \/ h.cbDone = 0 THEN [ h EXCEPT !.pc = "rd_addr" ]
    ELSE [ h EXCEPT !.pc = "ret", !.ret = TRUE,
                    !.cbOut = IF h.pcbNull THEN -1 ELSE h.cbDone ]

\* The head of the read loop: while ( cbRecv < cbRead )
RdLoop(h) == IF h.cbDone < h.cb THEN [ h EXCEPT !.pc = "rd_addr" ] ELSE NormalExit(h)

\* Entry of I2CHALRead: cbRecv = 0, then the slave-address ioctl on Linux.
I2CHALRead(entry, addrRead, pbRead, cbRead, pcbNull, uWait) ==
    LET h == [ HalIdle EXCEPT !.fn = "read", !.entry = entry, !.addr0 = addrRead,
                              !.cbReq = cbRead, !.cb = cbRead % ByteMod,
                              !.uWait = uWait, !.addr = addrRead,
                              !.buf = pbRead, !.pcbNull = pcbNull ]
    IN  IF backend = "linux" THEN [ h EXCEPT !.pc = "rd_sel" ] ELSE RdLoop(h)

\* ioctl(fdI2cDev, I2C_SLAVE, slaveAddr)
RdSelect ==
    /\ hal.pc = "rd_sel"
    /\ \E ok \in BOOLEAN :
         /\ hal' = IF ok THEN RdLoop(hal) ELSE ErrorExit(hal)
         /\ bus' = [ bus EXCEPT !.nCall = @ + 1, !.failed = ~ok ]
    /\ UNCHANGED <<others, backend, layout, dna>>

\* The address phase: rgbSnd = big-endian addrRead, sent as 2 bytes.
RdAddr ==
    /\ hal.pc = "rd_addr"
    /\ \E ok \in BOOLEAN :
         LET snd == AddrBytes(hal.addr) IN
         /\ hal' = IF ok
                   THEN [ hal EXCEPT !.pc = "rd_wait", !.rgbSnd = snd,
                                     !.cbTrans = RdTransLen(hal.cb, hal.cbDone) ]
                   ELSE ErrorExit([ hal EXCEPT !.rgbSnd = snd ])
         /\ bus' = [ bus EXCEPT !.nCall = @ + 1, !.failed = ~ok,
                                !.nAddr = @ + 1,
                                !.devPtr = IF ok THEN AddrOf(snd) ELSE @,
                                !.tx = [ kind |-> "read", frame |-> snd,
                                         off |-> hal.cbDone, before |-> bus.xfer,
                                         len |-> RdTransLen(hal.cb, hal.cbDone),
                                         got |-> 0 ] ]
    /\ UNCHANGED <<others, backend, layout, dna>>

\* Variant: the data phase follows the address phase at once.
RdDelayOmitted ==
    /\ hal.pc = "rd_wait"
    /\ hal' = [ hal EXCEPT !.pc = "rd_data" ]
    /\ UNCHANGED <<others, backend, layout, bus, dna>>

\* nanosleep(&tsWait, NULL) on Linux, usleep(uWait) elsewhere.
RdDelay ==
    /\ hal.pc = "rd_wait"
    /\ hal' = [ hal EXCEPT !.pc = "rd_data" ]
    /\ bus' = [ bus EXCEPT !.nCall = @ + 1, !.nDelay = @ + 1 ]
    /\ UNCHANGED <<others, backend, layout, dna>>

\* The data phase: the slave sends r bytes from its address pointer into
\* pbRead[cbRecv..]; the code then advances cbRecv and addrRead.
RdData ==
    /\ hal.pc = "rd_data"
    /\ \E r \in RecvOutcomes(backend, hal.cbTrans, bus.nShort) :
         LET adv == RdAdvance(backend, r, hal.cbTrans)
             got == [ i \in 1..Len(hal.buf) |->
                        IF hal.cbDone < i /\ i <= hal.cbDone + r
                        THEN PodByte(bus.img, bus.devPtr + (i - hal.cbDone - 1))
                        ELSE hal.buf[i] ]
         IN
         /\ hal' = IF r = 0
                   THEN ErrorExit(hal)
                   ELSE RdLoop([ hal EXCEPT !.buf = got,
                                            !.cbDone = (@ + adv) % ByteMod,
                                            !.addr = (@ + adv) % WordMod ])
         /\ bus' = [ bus EXCEPT !.nCall = @ + 1, !.failed = (r = 0),
                                !.nData = IF r = 0 THEN @ ELSE @ + 1,
                                !.xfer = @ + r,
                                !.nShort = IF 0 < r /\ r < hal.cbTrans THEN @ + 1 ELSE @,
                                !.devPtr = (@ + r) % WordMod,
                                !.tx = [ @ EXCEPT !.got = r ] ]
    /\ UNCHANGED <<others, backend, layout, dna>>

(***************************************************************************)
(* I2CHALWrite                                                              *)
(***************************************************************************)
\* Variant: the cap bounds the payload, the two address bytes come on top.
WrTransLenPayloadCap(cbWrite, cbSent, cbDevRxMax) ==
    LET t == (cbWrite - cbSent) % ByteMod
    IN  (2 + (IF cbDevRxMax < t THEN cbDevRxMax ELSE t)) % ByteMod

\* cbTrans = 2 + (cbWrite - cbSent), stored in a BYTE;
\* if ( cbDevRxMax < cbTrans ) cbTrans = cbDevRxMax;
WrTransLen(cbWrite, cbSent, cbDevRxMax) ==
    LET t == (2 + (cbWrite - cbSent)) % ByteMod
    IN  IF cbDevRxMax < t THEN cbDevRxMax % ByteMod ELSE t

\* cbSent += (cbTrans-2), in a BYTE; addrWrite += (cbTrans-2), in a WORD.
WrAdvanceSent(cbSent, cbTrans) == (cbSent + cbTrans + (ByteMod - 2)) % ByteMod

WrAdvanceAddr(addr, cbTrans) == (addr + cbTrans + (WordMod - 2)) % WordMod

\* The contents of rgbSnd after the staging loop: the two address bytes, then
\* one byte of pbWrite for each ib in 2..cbTrans-1 (index i here is ib + 1).
Staged(addr, ipb, cbTrans) ==
    [ i \in 1..(IF cbTrans < 2 THEN 2 ELSE cbTrans) |->
        IF i <= 2 THEN AddrBytes(addr)[i] ELSE SrcByte(ipb + (i - 3)) ]

\* Number of bytes the staging loop took from pbWrite.
StagedCount(cbTrans) == IF cbTrans < 2 THEN 0 ELSE cbTrans - 2

\* A store to rgbSnd[ib] with ib >= 32 is outside the array.  What it hits is
\* fixed by the build; two layouts are considered: the bytes land in storage
\* nothing else reads ("adjacent"), or on the locals declared just before the
\* array, rgbSnd[32] on cbSent and rgbSnd[33] on cbTrans ("locals").
Layouts == {"adjacent", "locals"}

OobHits(cbTrans) == cbTrans > cbSndBuf

\* The head of the write loop: while ( cbSent < cbWrite )
WrLoop(h) == IF h.cbDone < h.cb THEN [ h EXCEPT !.pc = "wr_stage" ] ELSE NormalExit(h)

\* Entry of I2CHALWrite: cbSent = 0, then the slave-address ioctl on Linux.
I2CHALWrite(entry, addrWrite, cbWrite, cbDevRxMax, pcbNull, uWait) ==
    LET h == [ HalIdle EXCEPT !.fn = "write", !.entry = entry, !.addr0 = addrWrite,
                              !.cbReq = cbWrite, !.cb = cbWrite % ByteMod,
                              !.cap = cbDevRxMax, !.uWait = uWait,
                              !.addr = addrWrite, !.pcbNull = pcbNull ]
    IN  IF backend = "linux" THEN [ h EXCEPT !.pc = "wr_sel" ] ELSE WrLoop(h)

\* ioctl(fdI2cDev, I2C_SLAVE, slaveAddr)
WrSelect ==
    /\ hal.pc = "wr_sel"
    /\ \E ok \in BOOLEAN :
         /\ hal' = IF ok THEN WrLoop(hal) ELSE ErrorExit(hal)
         /\ bus' = [ bus EXCEPT !.nCall = @ + 1, !.failed = ~ok ]
    /\ UNCHANGED <<others, backend, layout, dna>>

\* Compute cbTrans and fill rgbSnd (no transport call).
WrStage ==
    /\ hal.pc = "wr_stage"
    /\ bus.nAddr < MaxTx
    /\ LET t == WrTransLen(hal.cb, hal.cbDone, hal.cap)
           snd == Staged(hal.addr, hal.ipb, t)
           clob == OobHits(t) /\ layout = "locals"
       IN  /\ hal' = [ hal EXCEPT
                         !.pc = "wr_send",
                         !.rgbSnd = snd,
                         !.ipb = @ + StagedCount(t),
                         !.cbTrans = IF clob /\ t > cbSndBuf + 1
                                     THEN snd[cbSndBuf + 2] ELSE t,
                         !.cbDone = IF clob THEN snd[cbSndBuf + 1] ELSE @ ]
           /\ bus' = [ bus EXCEPT !.oob = @ \/ OobHits(t) ]
    /\ UNCHANGED <<others, backend, layout, dna>>

\* The bytes write() / XIic_Send / XIicPs_MasterSendPolled is asked to send:
\* rgbSnd[0..cbTrans-1]; bytes past what was staged are whatever follows.
WrFrame(h) ==
    [ i \in 1..h.cbTrans |-> IF i <= Len(h.rgbSnd) THEN h.rgbSnd[i] ELSE 0 ]

\* Variant: the delay is taken after every successful transaction.
WrAfterSendAlwaysDelay(h) == [ h EXCEPT !.pc = "wr_wait" ]

\* if ( cbSent < cbWrite ) { delay }, and then the loop test.
WrAfterSend(h) ==
    IF h.cbDone < h.cb THEN [ h EXCEPT !.pc = "wr_wait" ] ELSE NormalExit(h)

\* Transmit the frame; on success advance cbSent and addrWrite, then either
\* go on to the inter-transaction delay or leave the loop.
WrSend ==
    /\ hal.pc = "wr_send"
    /\ \E ok \in BOOLEAN :
         LET sent == WrAdvanceSent(hal.cbDone, hal.cbTrans)
             h2 == [ hal EXCEPT !.cbDone = sent,
                                !.addr = WrAdvanceAddr(hal.addr, hal.cbTrans) ]
         IN
         /\ hal' = IF ~ok THEN ErrorExit(hal)
                   ELSE WrAfterSend(h2)
         /\ bus' = [ bus EXCEPT
                       !.nCall = @ + 1, !.failed = ~ok,
                       !.nAddr = @ + 1,
                       !.nData = IF ok THEN @ + 1 ELSE @,
                       !.xfer = IF ok THEN @ + StagedCount(hal.cbTrans) ELSE @,
                       !.tx = [ kind |-> "write", frame |-> WrFrame(hal),
                                off |-> hal.ipb - StagedCount(Len(hal.rgbSnd)),
                                before |-> bus.xfer, len |-> hal.cbTrans,
                                got |-> IF ok THEN hal.cbTrans ELSE 0 ] ]
    /\ UNCHANGED <<others, backend, layout, dna>>

\* if ( cbSent < cbWrite ) nanosleep(1 s) on Linux, usleep(uWait) elsewhere.
WrDelay ==
    /\ hal.pc = "wr_wait"
    /\ hal' = [ hal EXCEPT !.pc = "wr_stage" ]
    /\ bus' = [ bus EXCEPT !.nCall = @ + 1, !.nDelay = @ + 1 ]
    /\ UNCHANGED <<others, backend, layout, dna>>

(***************************************************************************)
(* The wrappers of PlatformMCU.c and syzygy.c, and a direct caller          *)
(***************************************************************************)
\* A caller's receive buffer of n bytes that nothing has written yet.
FreshBuf(n, g) == [ i \in 1..n |-> g ]

PmcuI2cRead(addrRead, pbRead, cbRead, pcbNull) ==
    I2CHALRead("PmcuI2cRead", addrRead, pbRead, cbRead, pcbNull, 50)

PmcuI2cWrite(addrWrite, cbWrite, pcbNull) ==
    I2CHALWrite("PmcuI2cWrite", addrWrite, cbWrite, cbPmcuRxMaxPmcu, pcbNull, 0)

\* cbRead / cbWrite are WORDs here and BYTEs in I2CHALRead / I2CHALWrite.
SyzygyI2cRead(addrRead, pbRead, cbRead, pcbNull) ==
    I2CHALRead("SyzygyI2cRead", addrRead, pbRead, cbRead, pcbNull, 0)

SyzygyI2cWrite(addrWrite, cbWrite, pcbNull) ==
    I2CHALWrite("SyzygyI2cWrite", addrWrite, cbWrite, cbPmcuRxMaxSzg, pcbNull, 10000)

\* The transport's record of one operation starts empty.
BusStart == [ BusIdle EXCEPT !.img = bus.img ]

ReadLens == 0..MaxRead

\* cbWrite is a BYTE: every value is explored.
WriteLens == 0..(ByteMod - 1)

CallPmcuI2cRead ==
    /\ hal.pc = "idle" /\ dna.pc = "idle"
    /\ \E a \in StartAddrs, n \in ReadLens :
         hal' = PmcuI2cRead(a, FreshBuf(n, 165), n, FALSE)
    /\ bus' = BusStart
    /\ UNCHANGED <<others, backend, layout, dna>>

CallSyzygyI2cRead ==
    /\ hal.pc = "idle" /\ dna.pc = "idle"
    /\ \E a \in StartAddrs, n \in ReadLens :
         hal' = SyzygyI2cRead(a, FreshBuf(n, 165), n, FALSE)
    /\ bus' = BusStart
    /\ UNCHANGED <<others, backend, layout, dna>>

CallPmcuI2cWrite ==
    /\ hal.pc = "idle" /\ dna.pc = "idle"
    /\ \E a \in StartAddrs, n \in WriteLens :
         hal' = PmcuI2cWrite(a, n, FALSE)
    /\ bus' = BusStart
    /\ UNCHANGED <<others, backend, layout, dna>>

CallSyzygyI2cWrite ==
    /\ hal.pc = "idle" /\ dna.pc = "idle"
    /\ \E a \in StartAddrs, n \in WriteLens :
         hal' = SyzygyI2cWrite(a, n, FALSE)
    /\ bus' = BusStart
    /\ UNCHANGED <<others, backend, layout, dna>>

\* I2CHALWrite is public: a caller may pass any cap.
CallI2CHALWrite ==
    /\ hal.pc = "idle" /\ dna.pc = "idle"
    /\ \E a \in StartAddrs, n \in WriteLens, c \in DirectCaps :
         hal' = I2CHALWrite("I2CHALWrite", a, n, c, FALSE, 0)
    /\ bus' = BusStart
    /\ UNCHANGED <<others, backend, layout, dna>>

\* The top-level caller takes the result; the next operation starts afresh.
HalReturn ==
    /\ hal.pc = "ret" /\ dna.pc = "idle"
    /\ hal' = HalIdle
    /\ bus' = BusStart
    /\ UNCHANGED <<others, backend, layout, dna>>

(***************************************************************************)
(* syzygy.c: CRC-16, SyzygyReadDNAHeader, SyzygyReadDNAStrings              *)
(***************************************************************************)
\* Bit k of v.
Bit(v, k) == (v \div (2 ^ k)) % 2

\* Bit k of a ^ b ^ c ^ d, in place.
XorBit(a, b, c, d, k) == (2 ^ k) * ((Bit(a, k) + Bit(b, k) + Bit(c, k) + Bit(d, k)) % 2)

\* a ^ b ^ c ^ d on bits 0..15: what survives the store into a WORD.
Xor4(a, b, c, d) ==
    XorBit(a, b, c, d, 0) + (XorBit(a, b, c, d, 1) + (XorBit(a, b, c, d, 2)
    + (XorBit(a, b, c, d, 3) + (XorBit(a, b, c, d, 4) + (XorBit(a, b, c, d, 5)
    + (XorBit(a, b, c, d, 6) + (XorBit(a, b, c, d, 7) + (XorBit(a, b, c, d, 8)
    + (XorBit(a, b, c, d, 9) + (XorBit(a, b, c, d, 10) + (XorBit(a, b, c, d, 11)
    + (XorBit(a, b, c, d, 12) + (XorBit(a, b, c, d, 13) + (XorBit(a, b, c, d, 14)
    + XorBit(a, b, c, d, 15)))))))))))))))

\* Variant: the data byte meets the low byte of crc, not the high byte.
CrcStepLowByte(crc, b) ==
    LET x0 == Xor4(crc % 256, b, 0, 0)
        x == Xor4(x0, x0 \div 16, 0, 0)
    IN  Xor4(crc * 256, x * 4096, x * 32, x)

\* Variant: the low bit of the data byte does not enter the sum.
CrcStepDropBit(crc, b) ==
    LET x0 == Xor4(crc \div 256, b - (b % 2), 0, 0)
        x == Xor4(x0, x0 \div 16, 0, 0)
    IN  Xor4(crc * 256, x * 4096, x * 32, x)

\* One round of the loop of SyzygyComputeCRC for data byte b:
\* x = (crc >> 8) ^ b; x ^= x >> 4; crc = (crc << 8) ^ (x << 12) ^ (x << 5) ^ x.
CrcStep(crc, b) ==
    LET x0 == Xor4(crc \div 256, b, 0, 0)
        x == Xor4(x0, x0 \div 16, 0, 0)
    IN  Xor4(crc * 256, x * 4096, x * 32, x)

\* Variant: crc starts at 0.
SyzygyComputeCRCZeroInit(pbBuf, cbBuf) ==
    LET c[i \in 0..(cbBuf % ByteMod)] ==
          IF i = 0 THEN 0
          ELSE LET crc == c[i - 1]
               IN  IF crc < WordMod THEN CrcStep(crc, pbBuf[i]) ELSE 0
    IN  c[cbBuf % ByteMod]

\* crc = 0xFFFF; while ( 0 < cbBuf ) { ...; pbBuf++; cbBuf--; } return crc;
\* c[i] is crc after i rounds; it is a WORD at the head of every round.
SyzygyComputeCRC(pbBuf, cbBuf) ==
    LET c[i \in 0..(cbBuf % ByteMod)] ==
          IF i = 0 THEN WordMod - 1
          ELSE LET crc == c[i - 1]
               IN  IF crc < WordMod THEN CrcStep(crc, pbBuf[i]) ELSE 0
    IN  c[cbBuf % ByteMod]

\* Variant: the CRC is checked whether or not the caller asked for it.
HeaderAcceptedCrcAlways(readOk, rgbDnaBuf, fCheckCrc) ==
    /\ readOk
    /\ SyzygyComputeCRC(rgbDnaBuf, cbSyzygyDnaHeader) = 0

\* The decision of SyzygyReadDNAHeader once the read has returned.
HeaderAccepted(readOk, rgbDnaBuf, fCheckCrc) ==
    /\ readOk
    /\ fCheckCrc => SyzygyComputeCRC(rgbDnaBuf, cbSyzygyDnaHeader) = 0

\* The caller's header before the call: not a possible raw header.
HdrBefore == [ i \in 1..cbSyzygyDnaHeader |-> 238 ]

\* SyzygyReadDNAHeader up to its read of the header.
CallSyzygyReadDNAHeader ==
    /\ hal.pc = "idle" /\ dna.pc = "idle"
    /\ \E img \in Images, chk \in BOOLEAN, null \in BOOLEAN, g \in GarbageBytes :
         /\ dna' = [ DnaIdle EXCEPT !.pc = "hdr", !.fn = "hdr", !.fCheckCrc = chk,
                                    !.hdrNull = null,
                                    !.hdr0 = IF null THEN << >> ELSE HdrBefore,
                                    !.hdr = IF null THEN << >> ELSE HdrBefore ]
         /\ hal' = SyzygyI2cRead(addrDnaStart, FreshBuf(cbSyzygyDnaHeader, g),
                                 cbSyzygyDnaHeader, TRUE)
         /\ bus' = [ BusIdle EXCEPT !.img = img ]
    /\ UNCHANGED <<others, backend, layout>>

\* The rest of SyzygyReadDNAHeader: CRC check, memcpy, return.
HdrReturn ==
    /\ hal.pc = "ret" /\ dna.pc = "hdr"
    /\ LET ok == HeaderAccepted(hal.ret, hal.buf, dna.fCheckCrc)
       IN  dna' = [ dna EXCEPT !.pc = "ret", !.ret = ok, !.readOk = hal.ret,
                               !.raw = hal.buf,
                               !.hdr = IF ok /\ ~dna.hdrNull THEN hal.buf ELSE @ ]
    /\ hal' = HalIdle
    /\ UNCHANGED <<others, backend, layout, bus>>

\* Header and string lengths a caller's SzgDnaHeader may declare.
HdrLens == {cbSyzygyDnaHeader, 65500}

StrLens == {0, 2, MaxStr}

NumStrings == 5

\* malloc(cb + 1) followed by sz[0] = '\0'.
NewString(cb, g) == [ i \in 1..(cb + 1) |-> IF i = 1 THEN 0 ELSE g ]

\* addrRead = 0x8000 + pszgdnahdr->cbDnaHeader, in a WORD.
FirstStringAddr(cbDnaHeader) == (addrDnaStart + cbDnaHeader) % WordMod

\* Variant: the running address is not advanced past the field just read.
NextStringAddrStuck(addrRead, cbField) == addrRead

\* addrRead += (length of the field just read), in a WORD.
NextStringAddr(addrRead, cbField) == (addrRead + cbField) % WordMod

\* sz[cb] = '\0' after a successful read.
Terminated(sz, cb) == [ sz EXCEPT ![cb + 1] = 0 ]

\* SyzygyReadDNAStrings up to its first read: the NULL check, the
\* allocations, and the read of the manufacturer name.
CallSyzygyReadDNAStrings ==
    /\ hal.pc = "idle" /\ dna.pc = "idle"
    /\ \E null \in BOOLEAN, hl \in HdrLens, ls \in [1..NumStrings -> StrLens] :
         IF null
         THEN /\ dna' = [ DnaIdle EXCEPT !.pc = "ret", !.fn = "str", !.ret = FALSE ]
              /\ hal' = hal
              /\ bus' = BusIdle
         ELSE LET ss == [ k \in 1..NumStrings |-> NewString(ls[k], 165) ]
                  a == FirstStringAddr(hl)
              IN  /\ dna' = [ DnaIdle EXCEPT !.pc = "str", !.fn = "str",
                                             !.cbDnaHeader = hl, !.lens = ls,
                                             !.idx = 1, !.addrRead = a, !.strs = ss,
                                             !.reqs = << <<a, ls[1]>> >> ]
                  /\ hal' = SyzygyI2cRead(a, ss[1], ls[1], TRUE)
                  /\ bus' = BusIdle
    /\ UNCHANGED <<others, backend, layout>>

\* A string read has returned: fail, or terminate the string and either read
\* the next field or return fTrue.
StrReturn ==
    /\ hal.pc = "ret" /\ dna.pc = "str"
    /\ LET k == dna.idx
           cbField == dna.lens[k]
           txs == Append(dna.txs, bus.nAddr)
       IN  IF hal.ret = FALSE
           THEN /\ dna' = [ dna EXCEPT !.pc = "ret", !.ret = FALSE, !.txs = txs,
                                       !.strs[k] = hal.buf ]
                /\ hal' = HalIdle
                /\ bus' = bus
           ELSE LET a == NextStringAddr(dna.addrRead, cbField)
                    d == [ dna EXCEPT !.strs[k] = Terminated(hal.buf, cbField),
                                      !.txs = txs, !.addrRead = a ]
                IN  IF k = NumStrings
                    THEN /\ dna' = [ d EXCEPT !.pc = "ret", !.ret = TRUE ]
                         /\ hal' = HalIdle
                         /\ bus' = bus
                    ELSE /\ dna' = [ d EXCEPT !.idx = k + 1,
                                              !.reqs = Append(@, <<a, dna.lens[k + 1]>>) ]
                         /\ hal' = SyzygyI2cRead(a, dna.strs[k + 1], dna.lens[k + 1], TRUE)
                         /\ bus' = BusIdle
    /\ UNCHANGED <<others, backend, layout>>

\* The caller of the SYZYGY function takes the result.
DnaReturn ==
    /\ dna.pc = "ret"
    /\ dna' = DnaIdle
    /\ bus' = BusIdle
    /\ UNCHANGED <<others, backend, layout, hal>>

(***************************************************************************)
(* The engine specification: every wrapper, every backend                   *)
(***************************************************************************)
Init ==
    /\ backend \in Backends
    /\ layout \in Layouts
    /\ hal = HalIdle
    /\ peer = HalIdle
    /\ bus = BusIdle
    /\ dna = DnaIdle
    /\ heap = HeapIdle
    /\ crcio = CrcIdle
    /\ cal = CalIdle
    /\ zmod = ZmodIdle
    /\ cmd = CmdIdle

Next ==
    \/ CallPmcuI2cRead \/ CallSyzygyI2cRead
    \/ CallPmcuI2cWrite \/ CallSyzygyI2cWrite \/ CallI2CHALWrite
    \/ RdSelect \/ RdAddr \/ RdDelay \/ RdData
    \/ WrSelect \/ WrStage \/ WrSend \/ WrDelay
    \/ HalReturn

Spec == Init /\ [][Next]_vars

(***************************************************************************)
(* The SYZYGY DNA specification: header and string readers over the engine  *)
(***************************************************************************)
InitDna ==
    /\ backend \in Backends
    /\ layout = "adjacent"
    /\ hal = HalIdle
    /\ peer = HalIdle
    /\ bus = BusIdle
    /\ dna = DnaIdle
    /\ heap = HeapIdle
    /\ crcio = CrcIdle
    /\ cal = CalIdle
    /\ zmod = ZmodIdle
    /\ cmd = CmdIdle

NextDna ==
    \/ CallSyzygyReadDNAHeader \/ HdrReturn
    \/ CallSyzygyReadDNAStrings \/ StrReturn
    \/ RdSelect \/ RdAddr \/ RdDelay \/ RdData
    \/ DnaReturn

SpecDna == InitDna /\ [][NextDna]_vars

(***************************************************************************)
(* The heap specification: the string buffers of a SzgDnaStrings            *)
(***************************************************************************)
\* Which of the five malloc calls returns NULL (0: none).
MallocFails == 0..NumStrings

\* Which of the five string reads fails (0: none).
ReadFails == 0..NumStrings

\* What a store through a NULL pointer does: the process is killed, or (on
\* the bare-metal builds, where address 0 is memory) execution goes on.
NullStoreOutcomes == {"trap", "continue"}

\* SyzygyFreeDNAStrings on a non-NULL structure: free every non-NULL field
\* and set it to NULL.  Freeing a buffer that is not live is a fault.
FreeDNAStrings(h) ==
    LET held == { h.sz[k] : k \in 1..NumStrings } \ {0}
    IN  [ h EXCEPT !.sz = [ k \in 1..NumStrings |-> 0 ],
                   !.live = @ \ held,
                   !.fault = IF held \subseteq h.live THEN @ ELSE "free_dead" ]

\* The five malloc calls of SyzygyReadDNAStrings, the m-th returning NULL
\* (none when m = 0, or when upTo < m: the calls after upTo are not made).
AllocDNAStrings(h, m, upTo) ==
    LET got(k) == IF k = m \/ k > upTo THEN 0
                  ELSE h.next + (k - 1) - (IF m # 0 /\ m < k THEN 1 ELSE 0)
        n == Cardinality({ k \in 1..NumStrings : got(k) # 0 })
    IN  [ h EXCEPT !.sz = [ k \in 1..NumStrings |-> got(k) ],
                   !.live = @ \cup ({ got(k) : k \in 1..NumStrings } \ {0}),
                   !.next = @ + n ]

\* SyzygyReadDNAStrings up to its first read: the NULL-argument check, the
\* call of SyzygyFreeDNAStrings, the five malloc calls and sz[0] = '\0'.
StrAlloc ==
    /\ heap.pc = "idle" /\ heap.fault = "none"
    /\ \E null \in BOOLEAN, m \in MallocFails, o \in NullStoreOutcomes :
         IF null
         THEN heap' = [ heap EXCEPT !.pc = "ret", !.fn = "read", !.ret = FALSE,
                                    !.argNull = TRUE ]
         ELSE /\ heap.calls < MaxHeapCalls
              /\ LET h0 == [ FreeDNAStrings(heap) EXCEPT !.fn = "read", !.argNull = FALSE,
                                                         !.calls = @ + 1 ]
                 IN  IF m = 0
                     THEN heap' = [ AllocDNAStrings(h0, 0, NumStrings) EXCEPT !.pc = "reads" ]
                     ELSE IF o = "trap"
                          THEN heap' = [ AllocDNAStrings(h0, m, m) EXCEPT
                                           !.pc = "crashed", !.fault = "null_store" ]
                          ELSE heap' = [ AllocDNAStrings(h0, m, NumStrings) EXCEPT
                                           !.pc = "reads", !.fault = "null_store" ]
    /\ UNCHANGED <<engine, zmod, cmd, crcio, cal, peer>>

\* The five reads of SyzygyReadDNAStrings: the function returns fFalse at the
\* first read that fails and fTrue when none does.
StrReads ==
    /\ heap.pc = "reads"
    /\ \E r \in ReadFails :
         heap' = [ heap EXCEPT !.pc = "ret", !.ret = (r = 0) ]
    /\ UNCHANGED <<engine, zmod, cmd, crcio, cal, peer>>

\* SyzygyFreeDNAStrings called by the application.
CallSyzygyFreeDNAStrings ==
    /\ heap.pc = "idle" /\ heap.fault = "none"
    /\ \E null \in BOOLEAN :
         heap' = IF null
                 THEN [ heap EXCEPT !.pc = "ret", !.fn = "free", !.ret = "none",
                                    !.argNull = TRUE ]
                 ELSE [ FreeDNAStrings(heap) EXCEPT !.pc = "ret", !.fn = "free",
                                                    !.ret = "none", !.argNull = FALSE ]
    /\ UNCHANGED <<engine, zmod, cmd, crcio, cal, peer>>

\* The application takes the result and goes on.
HeapReturn ==
    /\ heap.pc = "ret"
    /\ heap' = [ heap EXCEPT !.pc = "idle" ]
    /\ UNCHANGED <<engine, zmod, cmd, crcio, cal, peer>>

EngineIdle ==
    /\ backend = "linux"
    /\ layout = "adjacent"
    /\ hal = HalIdle
    /\ peer = HalIdle
    /\ bus = BusIdle
    /\ dna = DnaIdle

InitHeap ==
    /\ EngineIdle
    /\ heap = HeapIdle
    /\ crcio = CrcIdle
    /\ cal = CalIdle
    /\ zmod = ZmodIdle
    /\ cmd = CmdIdle

NextHeap == StrAlloc \/ StrReads \/ CallSyzygyFreeDNAStrings \/ HeapReturn

SpecHeap == InitHeap /\ [][NextHeap]_vars

(***************************************************************************)
(* The CRC specification: SyzygyComputeCRC on bounded buffers               *)
(***************************************************************************)
\* Byte values the short buffers are built from.
CrcAlphabet == {0, 1, 49, 128, 255}

\* The ASCII digits "123456789".
CheckString == << 49, 50, 51, 52, 53, 54, 55, 56, 57 >>

\* The buffers handed to SyzygyComputeCRC: every buffer of up to MaxCrcLen
\* bytes over the alphabet, every one-byte buffer, the digits, and a DNA
\* header without its two CRC bytes.
CrcBufs ==
    UNION { [1..n -> CrcAlphabet] : n \in 0..MaxCrcLen }
      \cup { << b >> : b \in 0..(ByteMod - 1) }
      \cup { CheckString, SubSeq(GoodHeader, 1, cbSyzygyDnaHeader - 2) }

\* buf with bit i flipped (bit 0 is the low bit of the first byte).
FlipBit(buf, i) ==
    LET k == (i \div 8) + 1
        j == i % 8
    IN  [ buf EXCEPT ![k] = IF Bit(@, j) = 0 THEN @ + 2 ^ j ELSE @ - 2 ^ j ]

\* SyzygyComputeCRC(buf, cbBuf) is called and returns.
CrcCompute ==
    /\ crcio.pc = "idle"
    /\ crcio' = [ crcio EXCEPT !.pc = "done",
                               !.out = SyzygyComputeCRC(crcio.buf, Len(crcio.buf)) ]
    /\ UNCHANGED <<engine, zmod, cmd, heap, cal, peer>>

\* The pod's generator appends the CRC, high byte first, and the host
\* computes the CRC of the whole.
CrcSeal ==
    /\ crcio.pc = "done"
    /\ LET sealed == crcio.buf \o << crcio.out \div 256, crcio.out % 256 >>
       IN  crcio' = [ crcio EXCEPT !.pc = "sealed", !.buf = sealed,
                                   !.out = SyzygyComputeCRC(sealed, Len(sealed)) ]
    /\ UNCHANGED <<engine, zmod, cmd, heap, cal, peer>>

\* One bit of the sealed buffer is corrupted and the host computes the CRC
\* again.
CrcCorrupt ==
    /\ crcio.pc = "sealed"
    /\ \E i \in 0..(8 * Len(crcio.buf) - 1) :
         LET bad == FlipBit(crcio.buf, i)
         IN  crcio' = [ crcio EXCEPT !.pc = "flipped", !.buf = bad, !.bit = i,
                                     !.was = crcio.out,
                                     !.out = SyzygyComputeCRC(bad, Len(bad)) ]
    /\ UNCHANGED <<engine, zmod, cmd, heap, cal, peer>>

InitCrc ==
    /\ EngineIdle
    /\ heap = HeapIdle
    /\ crcio \in { [ CrcIdle EXCEPT !.buf = b ] : b \in CrcBufs }
    /\ cal = CalIdle
    /\ zmod = ZmodIdle
    /\ cmd = CmdIdle

NextCrc == CrcCompute \/ CrcSeal \/ CrcCorrupt

SpecCrc == InitCrc /\ [][NextCrc]_vars

(***************************************************************************)
(* ZmodADC.c, ZmodDAC.c, ZmodDigitizer.c: the 18-bit calibration             *)
(* coefficients.  A float is a record: k = "fin" is the rational n / d in   *)
(* lowest terms with d > 0, k = "inf" is an infinity of sign n, and         *)
(* k = "nan" is a NaN.                                                      *)
(***************************************************************************)
Rat(n, d) == [ k |-> "fin", n |-> n, d |-> d ]

NaN == [ k |-> "nan", n |-> 0, d |-> 1 ]

Inf(s) == [ k |-> "inf", n |-> s, d |-> 1 ]

Sign(x) == IF x.n > 0 THEN 1 ELSE IF x.n < 0 THEN -1 ELSE 0

Abs(n) == IF n < 0 THEN -n ELSE n

RECURSIVE Gcd(_, _)
Gcd(a, b) == IF b = 0 THEN a ELSE Gcd(b, a % b)

\* n / d in lowest terms.
Frac(n, d) == LET g == Gcd(Abs(n), d) IN Rat(n \div g, d \div g)

\* x * y
FMul(x, y) ==
    IF x.k = "nan" \/ y.k = "nan" THEN NaN
    ELSE IF x.k = "fin" /\ y.k = "fin"
    THEN LET g1 == Gcd(Abs(x.n), y.d)
             g2 == Gcd(Abs(y.n), x.d)
         IN  Rat((x.n \div g1) * (y.n \div g2), (x.d \div g2) * (y.d \div g1))
    ELSE IF Sign(x) * Sign(y) = 0 THEN NaN
    ELSE Inf(Sign(x) * Sign(y))

\* x / y; a zero divisor is +0 in every expression of the code, as the only
\* way to it is 1 + cg with cg = -1.
FDiv(x, y) ==
    FMul(x, IF y.k = "nan" THEN NaN
            ELSE IF y.k = "inf" THEN Rat(0, 1)
            ELSE IF y.n = 0 THEN Inf(1)
            ELSE IF y.n > 0 THEN Rat(y.d, y.n)
            ELSE Rat(-y.d, -y.n))

\* x + y
FAdd(x, y) ==
    IF x.k = "nan" \/ y.k = "nan" THEN NaN
    ELSE IF x.k = "fin" /\ y.k = "fin"
    THEN LET g == Gcd(x.d, y.d)
         IN  Frac(x.n * (y.d \div g) + y.n * (x.d \div g), (x.d \div g) * y.d)
    ELSE IF x.k = "inf" /\ y.k = "inf" /\ x.n # y.n THEN NaN
    ELSE IF x.k = "inf" THEN x
    ELSE y

\* Binary long division: q and r are doubled until q has the 24 bits of a
\* float's significand; s counts the doublings.
RECURSIVE LongDiv(_, _, _, _)
LongDiv(q, r, d, s) ==
    IF q >= 2 ^ 23 THEN [ q |-> q, r |-> r, s |-> s ]
    ELSE LongDiv(2 * q + (IF 2 * r >= d THEN 1 ELSE 0),
                 IF 2 * r >= d THEN 2 * r - d ELSE 2 * r, d, s + 1)

\* The store of a double expression into float fval: round to nearest, ties
\* to even, on a 24-bit significand.
RoundFloat(x) ==
    IF x.k # "fin" \/ x.n = 0 THEN x
    ELSE LET a == Abs(x.n)
             l == LongDiv(a \div x.d, a % x.d, x.d, 0)
             m == IF 2 * l.r > x.d \/ (2 * l.r = x.d /\ l.q % 2 = 1)
                  THEN l.q + 1 ELSE l.q
         IN  Frac(Sign(x) * m, 2 ^ l.s)

\* The processors the utility is built for.
FpuBuilds == {"x86", "arm"}

IntMax == 2147483647

IntMin == -IntMax - 1

\* Variant: the conversion rounds toward minus infinity.
ToInt32Floor(x, fpu) == IF x.k = "fin" THEN x.n \div x.d ELSE IntMin

\* (int32_t)x for a double x.  A finite x is truncated toward zero.  A NaN
\* or an infinity has no defined conversion: cvttsd2si delivers INT_MIN for
\* all three, vcvt delivers 0 for a NaN and saturates an infinity.
ToInt32(x, fpu) ==
    IF x.k = "fin" THEN (IF x.n >= 0 THEN x.n \div x.d ELSE -((-x.n) \div x.d))
    ELSE IF fpu = "x86" THEN IntMin
    ELSE IF x.k = "nan" THEN 0
    ELSE IF x.n > 0 THEN IntMax
    ELSE IntMin

\* Bit k of the two's-complement int32_t v.
BitTC(v, k) == IF v >= 0 THEN Bit(v, k) ELSE 1 - Bit(-(v + 1), k)

\* v & ((1 << n) - 1)
AndLow(v, n) ==
    LET S[k \in 0..n] == IF k = 0 THEN 0 ELSE S[k - 1] + BitTC(v, k - 1) * 2 ^ (k - 1)
    IN  S[n]

\* Variant: ival is returned without the mask.
MaskOmitted(ival) == ival

\* Variant: the mask keeps 17 bits.
Mask17(ival) == AndLow(ival, 17)

\* ival &= (1<<18) - 1
Mask18(ival) == AndLow(ival, 18)

\* Variant: the conversion is applied to fval, without the 0.5.
RoundToS18NoHalf(x, fpu) ==
    LET fval == RoundFloat(x)
        ival == ToInt32(fval, fpu)
    IN  [ fval |-> fval, ival |-> ival, out |-> Mask18(ival) ]

\* fval = x; ival = (int32_t)(fval + 0.5); ival &= (1<<18) - 1; return ival;
RoundToS18(x, fpu) ==
    LET fval == RoundFloat(x)
        ival == ToInt32(FAdd(fval, Rat(1, 2)), fpu)
    IN  [ fval |-> fval, ival |-> ival, out |-> Mask18(ival) ]

\* ADC1410_REAL_RANGE_ADC_HIGH 1.086 and _LOW 26.25 over
\* ADC1410_IDEAL_RANGE_ADC_HIGH 1.0 and _LOW 25.0
ADC1410_RANGE(fHighGain) ==
    IF fHighGain THEN [ real |-> Rat(543, 500), ideal |-> Rat(1, 1) ]
    ELSE [ real |-> Rat(105, 4), ideal |-> Rat(25, 1) ]

\* DAC1411_REAL_RANGE_DAC_HIGH 5.32 and _LOW 1.33 over
\* DAC1411_IDEAL_RANGE_DAC_HIGH 5.0 and _LOW 1.25
DAC1411_RANGE(fHighGain) ==
    IF fHighGain THEN [ real |-> Rat(133, 25), ideal |-> Rat(5, 1) ]
    ELSE [ real |-> Rat(133, 100), ideal |-> Rat(5, 4) ]

\* DIGITIZER_REAL_RANGE_ADC 1.055 over DIGITIZER_IDEAL_RANGE_ADC 1.0
DIGITIZER_RANGE == [ real |-> Rat(211, 200), ideal |-> Rat(1, 1) ]

\* fval = (REAL/IDEAL)*(1 + cg)*(float)(1<<16)
ComputeMultCoefADC1410(cg, fHighGain, fpu) ==
    LET R == ADC1410_RANGE(fHighGain)
    IN  RoundToS18(FMul(FMul(FDiv(R.real, R.ideal), FAdd(Rat(1, 1), cg)),
                        Rat(2 ^ 16, 1)), fpu)

\* fval = ca / IDEAL*(float)(1<<17)
ComputeAddCoefADC1410(ca, fHighGain, fpu) ==
    RoundToS18(FMul(FDiv(ca, ADC1410_RANGE(fHighGain).ideal), Rat(2 ^ 17, 1)), fpu)

\* fval = (IDEAL/REAL)/(1 + cg)*(float)(1<<16)
ComputeMultCoefDAC1411(cg, fHighGain, fpu) ==
    LET R == DAC1411_RANGE(fHighGain)
    IN  RoundToS18(FMul(FDiv(FDiv(R.ideal, R.real), FAdd(Rat(1, 1), cg)),
                        Rat(2 ^ 16, 1)), fpu)

\* fval = -ca * (float)(uint32_t)(1<<17) / (REAL * (1 + cg))
ComputeAddCoefDAC1411(ca, cg, fHighGain, fpu) ==
    RoundToS18(FDiv(FMul([ ca EXCEPT !.n = -@ ], Rat(2 ^ 17, 1)),
                    FMul(DAC1411_RANGE(fHighGain).real, FAdd(Rat(1, 1), cg))), fpu)

\* fval = (REAL/IDEAL)*(1 + cg)*(float)(1<<16)
ComputeMultCoefDigitizer(cg, fpu) ==
    RoundToS18(FMul(FMul(FDiv(DIGITIZER_RANGE.real, DIGITIZER_RANGE.ideal),
                         FAdd(Rat(1, 1), cg)), Rat(2 ^ 16, 1)), fpu)

\* fval = ca / IDEAL*(float)(1<<17)
ComputeAddCoefDigitizer(ca, fpu) ==
    RoundToS18(FMul(FDiv(ca, DIGITIZER_RANGE.ideal), Rat(2 ^ 17, 1)), fpu)

(***************************************************************************)
(* The calibration specification: the coefficient functions and the two     *)
(* record converters on bounded Calibration Records                         *)
(***************************************************************************)
\* The stored gains: the multiples of 1/8 up to MaxGainEighths / 8 either
\* side of 0, a NaN and the two infinities.
NumGains == 2 * MaxGainEighths + 4

CalGain(i) ==
    IF i <= 2 * MaxGainEighths THEN Frac(i - MaxGainEighths, 8)
    ELSE IF i = 2 * MaxGainEighths + 1 THEN NaN
    ELSE IF i = 2 * MaxGainEighths + 2 THEN Inf(1)
    ELSE Inf(-1)

\* The stored offsets: the multiples of 1/8 up to MaxOffsetEighths / 8, the
\* multiples of 2^-19 up to MaxOffsetQuarters / 2^19 (a quarter of a count
\* of the digitizer's additive coefficient each), a NaN and the infinities.
NumOffsets == 2 * MaxOffsetEighths + 2 * MaxOffsetQuarters + 5

CalOffset(i) ==
    IF i <= 2 * MaxOffsetEighths THEN Frac(i - MaxOffsetEighths, 8)
    ELSE IF i <= 2 * MaxOffsetEighths + 2 * MaxOffsetQuarters + 1
    THEN Frac(i - 2 * MaxOffsetEighths - 1 - MaxOffsetQuarters, 2 ^ 19)
    ELSE IF i = 2 * MaxOffsetEighths + 2 * MaxOffsetQuarters + 2 THEN NaN
    ELSE IF i = 2 * MaxOffsetEighths + 2 * MaxOffsetQuarters + 3 THEN Inf(1)
    ELSE Inf(-1)

\* float cal[cbDigitizerCalibHzSteps][2][2], flattened: a gain followed by
\* an offset, 14 times.  A ZMOD_ADC_CAL or ZMOD_DAC_CAL is float cal[2][2][2],
\* the first eight cells.
cbDigitizerCalibHzSteps == 7

CalRecord(gi, oi) ==
    [ c \in 1..(4 * cbDigitizerCalibHzSteps) |->
        IF c % 2 = 1 THEN CalGain((gi + (c \div 2)) % NumGains)
        ELSE CalOffset((oi + (c \div 2) - 1) % NumOffsets) ]

CoefFunctions ==
    { "ComputeMultCoefADC1410", "ComputeAddCoefADC1410", "ComputeMultCoefDAC1411",
      "ComputeAddCoefDAC1411", "ComputeMultCoefDigitizer", "ComputeAddCoefDigitizer" }

\* One coefficient function is called on cal[0][0][0] and cal[0][0][1], as
\* the calibration printers call it, at either gain setting.
CallCoef ==
    /\ cal.pc = "idle"
    /\ \E fn \in CoefFunctions :
         LET cg == cal.rec[1]
             ca == cal.rec[2]
             r == CASE fn = "ComputeMultCoefADC1410" -> ComputeMultCoefADC1410(cg, cal.hi, cal.fpu)
                    [] fn = "ComputeAddCoefADC1410" -> ComputeAddCoefADC1410(ca, cal.hi, cal.fpu)
                    [] fn = "ComputeMultCoefDAC1411" -> ComputeMultCoefDAC1411(cg, cal.hi, cal.fpu)
                    [] fn = "ComputeAddCoefDAC1411" -> ComputeAddCoefDAC1411(ca, cg, cal.hi, cal.fpu)
                    [] fn = "ComputeMultCoefDigitizer" -> ComputeMultCoefDigitizer(cg, cal.fpu)
                    [] fn = "ComputeAddCoefDigitizer" -> ComputeAddCoefDigitizer(ca, cal.fpu)
         IN  cal' = [ cal EXCEPT !.pc = "done", !.fn = fn, !.fval = r.fval,
                                 !.ival = r.ival, !.out = r.out ]
    /\ UNCHANGED <<engine, zmod, cmd, heap, crcio, peer>>

\* pReturn->cal[ch][g][0] = ComputeMultCoefADC1410(adcal.cal[ch][g][0], g);
\* pReturn->cal[ch][g][1] = ComputeAddCoefADC1410(adcal.cal[ch][g][1], g);
FZmodADCCalConvertToS18 ==
    /\ cal.pc = "idle"
    /\ cal' = [ cal EXCEPT !.pc = "done", !.fn = "FZmodADCCalConvertToS18",
                  !.ret = [ c \in 1..8 |->
                      IF c % 2 = 1
                      THEN ComputeMultCoefADC1410(cal.rec[c], ((c - 1) \div 2) % 2 = 1, cal.fpu).out
                      ELSE ComputeAddCoefADC1410(cal.rec[c], ((c - 1) \div 2) % 2 = 1, cal.fpu).out ] ]
    /\ UNCHANGED <<engine, zmod, cmd, heap, crcio, peer>>

\* for hz, for ch:
\*   pReturn->cal[hz][ch][0] = ComputeMultCoefDigitizer(adcal.cal[hz][ch][0]);
\*   pReturn->cal[hz][ch][1] = ComputeAddCoefDigitizer(adcal.cal[hz][ch][1]);
FZmodDigitizerCalConvertToS18 ==
    /\ cal.pc = "idle"
    /\ cal' = [ cal EXCEPT !.pc = "done", !.fn = "FZmodDigitizerCalConvertToS18",
                  !.ret = [ c \in 1..(4 * cbDigitizerCalibHzSteps) |->
                      IF c % 2 = 1
                      THEN ComputeMultCoefDigitizer(cal.rec[c], cal.fpu).out
                      ELSE ComputeAddCoefDigitizer(cal.rec[c], cal.fpu).out ] ]
    /\ UNCHANGED <<engine, zmod, cmd, heap, crcio, peer>>

InitCal ==
    /\ EngineIdle
    /\ heap = HeapIdle
    /\ crcio = CrcIdle
    /\ cal \in { [ CalIdle EXCEPT !.rec = CalRecord(gi, oi), !.hi = h, !.fpu = f ] :
                   gi \in 0..(NumGains - 1), oi \in 0..(NumOffsets - 1),
                   h \in BOOLEAN, f \in FpuBuilds }
    /\ zmod = ZmodIdle
    /\ cmd = CmdIdle

\* The "(static)" lines of the calibration printer, for the record it read:
\*   printf("... Gain   ... (static): 0x%05X", ComputeMultCoefDigitizer(adcal.cal[hz][ch][0]));
\*   printf("... Offset ... (static): 0x%05X", ComputeMultCoefDigitizer(adcal.cal[hz][ch][1]));
\* cal.ret holds the values shown, in the order of the cells.
FDisplayZmodDigitizerCal ==
    /\ cal.pc = "idle"
    /\ cal' = [ cal EXCEPT !.pc = "done", !.fn = "FDisplayZmodDigitizerCal",
                  !.ret = [ c \in 1..(4 * cbDigitizerCalibHzSteps) |->
                      ComputeMultCoefDigitizer(cal.rec[c], cal.fpu).out ] ]
    /\ UNCHANGED <<engine, zmod, cmd, heap, crcio, peer>>

NextCal ==
    \/ CallCoef
    \/ FZmodADCCalConvertToS18
    \/ FZmodDigitizerCalConvertToS18
    \/ FDisplayZmodDigitizerCal

SpecCal == InitCal /\ [][NextCal]_vars

(***************************************************************************)
(* Zmod.c, ZmodADC.c, ZmodDigitizer.c: identification of a Zmod from its    *)
(* product ID, and the digitizer's frequency steps                          *)
(***************************************************************************)
\* Variant: a byte outside the table is taken as a frequency in MHz.
FrequencyStepPassThrough(hz) ==
    IF hz = 0 THEN RoundFloat(Rat(12288, 100)) ELSE Rat(hz, 1)

\* switch (hz) { case 0: return 122.88f; case 50: return 50.0f; ...
\*               default: return 0.0f; }
FZmodDigitizerGetFrequencyStepMHz(hz) ==
    IF hz = 0 THEN RoundFloat(Rat(12288, 100))
    ELSE IF hz \in {50, 80, 100, 110, 120, 125} THEN Rat(hz, 1)
    ELSE Rat(0, 1)

\* Variant: the field is taken four bits too low.
PdidFieldLow(Pdid, sh) ==
    (IF sh >= 16 THEN Pdid[1] \div 2 ^ (sh - 16)
     ELSE Pdid[1] * 2 ^ (16 - sh) + Pdid[2] \div 2 ^ sh) % 256

\* (Pdid >> sh) & 0xfff on a DWORD held as two 16-bit halves.
PdidField(Pdid, sh) ==
    (IF sh >= 16 THEN Pdid[1] \div 2 ^ (sh - 16)
     ELSE Pdid[1] * 2 ^ (16 - sh) + Pdid[2] \div 2 ^ sh) % 4096

prodZmodADC == 2049

prodZmodDAC == 2050

prodZmodDigitizer == 2049

FZmodIsADC(Pdid) == PdidField(Pdid, 20) = prodZmodADC

\* ZmodDAC.c is not among the sources; the family is bits 31:20 of the PDID.
FZmodIsDAC(Pdid) == PdidField(Pdid, 20) = prodZmodDAC

FZmodIsDigitizer(Pdid) == PdidField(Pdid, 20) = prodZmodDigitizer

\* The three tests in order; the return value is fTrue on every path.
FGetZmodFamily(Pdid) ==
    [ ret |-> TRUE,
      family |-> IF FZmodIsADC(Pdid) THEN "ZMOD_FAMILY_ADC"
                 ELSE IF FZmodIsDAC(Pdid) THEN "ZMOD_FAMILY_DAC"
                 ELSE IF FZmodIsDigitizer(Pdid) THEN "ZMOD_FAMILY_DIGITIZER"
                 ELSE "ZMOD_FAMILY_UNSUPPORTED" ]

\* switch ((Pdid >> 8) & 0xfff): 0x002, 0x012, ..., 0x062 in the order of
\* the enumeration, anything else unsupported.
FGetZmodADCVariant(Pdid) ==
    LET sel == PdidField(Pdid, 8)
        names == << "ZMOD_ADC_VARIANT_1410_105", "ZMOD_ADC_VARIANT_1010_40",
                    "ZMOD_ADC_VARIANT_1210_40", "ZMOD_ADC_VARIANT_1410_40",
                    "ZMOD_ADC_VARIANT_1010_125", "ZMOD_ADC_VARIANT_1210_125",
                    "ZMOD_ADC_VARIANT_1410_125" >>
    IN  IF sel % 16 = 2 /\ sel \div 16 < 7
        THEN [ ret |-> TRUE, pVariant |-> names[sel \div 16 + 1] ]
        ELSE [ ret |-> FALSE, pVariant |-> "ZMOD_ADC_VARIANT_UNSUPPORTED" ]

\* Variant: the unsupported case stores 0 before it returns fFalse.
ADCResolutionClearsOnFailure(variant, res) ==
    IF variant \in { "ZMOD_ADC_VARIANT_1410_105", "ZMOD_ADC_VARIANT_1410_40",
                     "ZMOD_ADC_VARIANT_1410_125" }
    THEN [ ret |-> TRUE, resolution |-> 14 ]
    ELSE IF variant \in { "ZMOD_ADC_VARIANT_1210_40", "ZMOD_ADC_VARIANT_1210_125" }
    THEN [ ret |-> TRUE, resolution |-> 12 ]
    ELSE IF variant \in { "ZMOD_ADC_VARIANT_1010_40", "ZMOD_ADC_VARIANT_1010_125" }
    THEN [ ret |-> TRUE, resolution |-> 10 ]
    ELSE [ ret |-> FALSE, resolution |-> 0 ]

\* switch (variant): 14, 12 or 10 by the first two digits of the variant;
\* ZMOD_ADC_VARIANT_UNSUPPORTED returns fFalse and stores nothing.
FGetZmodADCResolution(variant, res) ==
    IF variant \in { "ZMOD_ADC_VARIANT_1410_105", "ZMOD_ADC_VARIANT_1410_40",
                     "ZMOD_ADC_VARIANT_1410_125" }
    THEN [ ret |-> TRUE, resolution |-> 14 ]
    ELSE IF variant \in { "ZMOD_ADC_VARIANT_1210_40", "ZMOD_ADC_VARIANT_1210_125" }
    THEN [ ret |-> TRUE, resolution |-> 12 ]
    ELSE IF variant \in { "ZMOD_ADC_VARIANT_1010_40", "ZMOD_ADC_VARIANT_1010_125" }
    THEN [ ret |-> TRUE, resolution |-> 10 ]
    ELSE [ ret |-> FALSE, resolution |-> res ]

\* switch ((Pdid >> 8) & 0xfff) { case 0x061: ...; default: ... }
FGetZmodDigitizerVariant(Pdid) ==
    IF PdidField(Pdid, 8) = 97
    THEN [ ret |-> TRUE, pVariant |-> "ZMOD_DIGITIZER_VARIANT_1430_125" ]
    ELSE [ ret |-> FALSE, pVariant |-> "ZMOD_DIGITIZER_VARIANT_UNSUPPORTED" ]

\* switch (variant) { case ZMOD_DIGITIZER_VARIANT_1430_125: ...; default: ... }
FGetZmodDigitizerResolution(variant, res) ==
    IF variant = "ZMOD_DIGITIZER_VARIANT_1430_125"
    THEN [ ret |-> TRUE, resolution |-> 14 ]
    ELSE [ ret |-> FALSE, resolution |-> res ]

(***************************************************************************)
(* The identification specification: every lookup on bounded arguments      *)
(***************************************************************************)
\* Product IDs: the three product codes and codes next to them in the high
\* half, the listed variant selectors and selectors next to them in the low.
Pdids ==
    { 0, 2049, 32768, 32784, 32785, 32799, 32800, 32801, 32816, 32832, 65535 }
      \X { 0, 255, 256, 512, 513, 767, 768, 4608, 8704, 12800, 16896, 20992,
           24832, 25088, 25343, 29184, 65535 }

\* The values of ZMOD_ADC_VARIANT and ZMOD_DIGITIZER_VARIANT.
ZmodVariants ==
    { FGetZmodADCVariant(p).pVariant : p \in Pdids }
      \cup { FGetZmodDigitizerVariant(p).pVariant : p \in Pdids }

ZmodLookups ==
    { "FZmodDigitizerGetFrequencyStepMHz", "FGetZmodFamily", "FGetZmodADCVariant",
      "FGetZmodADCResolution", "FGetZmodDigitizerVariant",
      "FGetZmodDigitizerResolution" }

\* One lookup is called on the arguments at hand (a resolution function on
\* a value of its own enumeration); what it stores through its pointer
\* argument replaces what the caller had there.
CallZmodLookup ==
    /\ zmod.pc = "idle"
    /\ \E fn \in ZmodLookups :
         /\ fn = "FGetZmodADCResolution" =>
               zmod.variant \in { FGetZmodADCVariant(p).pVariant : p \in Pdids }
         /\ fn = "FGetZmodDigitizerResolution" =>
               zmod.variant \in { FGetZmodDigitizerVariant(p).pVariant : p \in Pdids }
         /\ zmod' =
           LET z == [ zmod EXCEPT !.pc = "done", !.fn = fn ]
           IN  CASE fn = "FZmodDigitizerGetFrequencyStepMHz" ->
                      [ z EXCEPT !.mhz = FZmodDigitizerGetFrequencyStepMHz(zmod.hz) ]
                 [] fn = "FGetZmodFamily" ->
                      LET r == FGetZmodFamily(zmod.Pdid)
                      IN  [ z EXCEPT !.ret = r.ret, !.family = r.family ]
                 [] fn = "FGetZmodADCVariant" ->
                      LET r == FGetZmodADCVariant(zmod.Pdid)
                      IN  [ z EXCEPT !.ret = r.ret, !.pVariant = r.pVariant ]
                 [] fn = "FGetZmodDigitizerVariant" ->
                      LET r == FGetZmodDigitizerVariant(zmod.Pdid)
                      IN  [ z EXCEPT !.ret = r.ret, !.pVariant = r.pVariant ]
                 [] fn = "FGetZmodADCResolution" ->
                      LET r == FGetZmodADCResolution(zmod.variant, zmod.resolution)
                      IN  [ z EXCEPT !.ret = r.ret, !.resolution = r.resolution ]
                 [] fn = "FGetZmodDigitizerResolution" ->
                      LET r == FGetZmodDigitizerResolution(zmod.variant, zmod.resolution)
                      IN  [ z EXCEPT !.ret = r.ret, !.resolution = r.resolution ]
    /\ UNCHANGED <<engine, heap, crcio, cal, cmd, peer>>

InitZmod ==
    /\ EngineIdle
    /\ heap = HeapIdle
    /\ crcio = CrcIdle
    /\ cal = CalIdle
    /\ cmd = CmdIdle
    /\ zmod \in { [ ZmodIdle EXCEPT !.Pdid = p ] : p \in Pdids }
                  \cup { [ ZmodIdle EXCEPT !.hz = h ] : h \in 0..(ByteMod - 1) }
                  \cup { [ ZmodIdle EXCEPT !.variant = v, !.resolution = r ] :
                           v \in ZmodVariants, r \in {0, 7} }

SpecZmod == InitZmod /\ [][CallZmodLookup]_vars

(***************************************************************************)
(* FGetZmodADCCal, FGetZmodDigitizerCal: the factory record, then the user  *)
(* record, each by one SyzygyI2cRead into the caller's structure            *)
(***************************************************************************)
\* The function up to its first read.  The caller's two structures hold
\* bytes that no image holds.
CallFGetZmodCal ==
    /\ hal.pc = "idle" /\ zmod.pc = "idle"
    /\ \E fn \in {"FGetZmodADCCal", "FGetZmodDigitizerCal"}, img \in CalImages :
         /\ zmod' = [ ZmodIdle EXCEPT !.pc = "fact", !.fn = fn,
                                      !.fact = FreshBuf(cbZmodCal, 238),
                                      !.user = FreshBuf(cbZmodCal, 238) ]
         /\ hal' = SyzygyI2cRead(IF fn = "FGetZmodADCCal" THEN addrAdcFactCalStart
                                 ELSE addrDigitizerFactCalStart,
                                 FreshBuf(cbZmodCal, 238), cbZmodCal, FALSE)
         /\ bus' = [ BusIdle EXCEPT !.img = img ]
    /\ UNCHANGED <<backend, layout, dna, heap, crcio, cal, cmd, peer>>

\* A read has returned.  A failed read ends the function with fFalse; after
\* the factory read the user read is issued; after the user read the
\* function returns fTrue.  No byte of either record is looked at.
CalReadReturn ==
    /\ hal.pc = "ret" /\ zmod.pc \in {"fact", "user"}
    /\ LET log == Append(zmod.reads,
                         [ addr |-> hal.addr0, cb |-> hal.cbReq, ok |-> hal.ret,
                           moved |-> bus.xfer, before |-> zmod.user ])
       IN  IF zmod.pc = "fact" /\ hal.ret
           THEN /\ zmod' = [ zmod EXCEPT !.pc = "user", !.fact = hal.buf,
                                         !.reads = log ]
                /\ hal' = SyzygyI2cRead(IF zmod.fn = "FGetZmodADCCal"
                                        THEN addrAdcUserCalStart
                                        ELSE addrDigitizerUserCalStart,
                                        zmod.user, cbZmodCal, FALSE)
                /\ bus' = BusStart
           ELSE /\ zmod' = [ zmod EXCEPT !.pc = "ret", !.reads = log,
                                         !.ret = hal.ret,
                                         !.fact = IF zmod.pc = "fact" THEN hal.buf ELSE @,
                                         !.user = IF zmod.pc = "user" THEN hal.buf ELSE @ ]
                /\ hal' = HalIdle
                /\ bus' = bus
    /\ UNCHANGED <<backend, layout, dna, heap, crcio, cal, cmd, peer>>

\* The caller takes the result.
ZmodReturn ==
    /\ zmod.pc = "ret"
    /\ zmod' = ZmodIdle
    /\ bus' = BusIdle
    /\ UNCHANGED <<backend, layout, hal, dna, heap, crcio, cal, cmd, peer>>

InitZcal ==
    /\ backend \in Backends
    /\ layout = "adjacent"
    /\ hal = HalIdle
    /\ peer = HalIdle
    /\ bus = BusIdle
    /\ dna = DnaIdle
    /\ heap = HeapIdle
    /\ crcio = CrcIdle
    /\ cal = CalIdle
    /\ zmod = ZmodIdle
    /\ cmd = CmdIdle

NextZcal ==
    \/ CallFGetZmodCal \/ CalReadReturn \/ ZmodReturn
    \/ RdSelect \/ RdAddr \/ RdDelay \/ RdData

SpecZcal == InitZcal /\ [][NextZcal]_vars

(***************************************************************************)
(* dpmutilFSetPlatformConfig, dpmutilFSetVioConfig, dpmutilFSetFanConfig    *)
(***************************************************************************)
\* The value of a 1- or 2-byte register image (*(WORD*)&... , .fs).
RegWord(b) == IF Len(b) = 1 THEN b[1] ELSE b[1] + ByteMod * b[2]

\* The register value a command writes: the value read, with each field whose
\* set-flag is true replaced.  A field is <<first bit, width, value>>; the
\* store into a bit-field keeps the low bits of the value.
\*   PLATFORM_CONFIG: fEnforce5v0CurLimit:1 fEnforce3v3CurLimit:1
\*                    fEnforceVioCurLimit:1 fPerformCrcCheck:1 rsv1:12
\*   VADJ_OVERRIDE:   vltgSet:10 rsv1:4 fEnable:1 fOverride:1
\*   FAN_CONFIGURATION: fEnable:1 fspeed:2 tempsrc:3 rsv1:2
NewRegister(fn, cur, set, val) ==
    LET bool(x) == IF x # 0 THEN 1 ELSE 0
        fld == IF fn = "dpmutilFSetPlatformConfig"
               THEN << <<0, 1, bool(val[1])>>, <<1, 1, bool(val[2])>>,
                       <<2, 1, bool(val[3])>>, <<3, 1, bool(val[4])>> >>
               ELSE IF fn = "dpmutilFSetVioConfig"
               THEN << <<14, 1, bool(val[1])>>, <<15, 1, bool(val[2])>>,
                       <<0, 10, val[3] \div 10>> >>
               ELSE << <<0, 1, bool(val[1])>>, <<1, 2, val[2]>>, <<3, 3, val[3]>> >>
        put(v, f) == v - ((v \div (2 ^ f[1])) % (2 ^ f[2])) * (2 ^ f[1])
                       + (f[3] % (2 ^ f[2])) * (2 ^ f[1])
        r[k \in 0..Len(fld)] ==
            IF k = 0 THEN cur
            ELSE IF set[k] THEN put(r[k - 1], fld[k]) ELSE r[k - 1]
    IN  r[Len(fld)]

\* The calls of PmcuI2cRead / PmcuI2cWrite a command makes when none fails,
\* in order: kind, register address (a WORD), length, and where a read goes.
CmdProgram(fn, id) ==
    LET rd(a, n, to) == [ k |-> "read", a |-> a % WordMod, n |-> n, to |-> to ]
        wr(a, n) == [ k |-> "write", a |-> a % WordMod, n |-> n, to |-> "none" ]
        ovr == regaddrVadjAOverride + offsetVadjReg * id
        vlt == regaddrVadjAVoltage + offsetVadjReg * id
        cap == regaddrFan1Capabilities + offsetFanReg * id
        cfg == regaddrFan1Config + offsetFanReg * id
    IN  IF fn = "dpmutilFSetPlatformConfig"
        THEN << rd(regaddrPlatformConfig, 2, "cur"), wr(regaddrPlatformConfig, 2),
                rd(regaddrPlatformConfig, 2, "back") >>
        ELSE IF fn = "dpmutilFSetVioConfig"
        THEN << rd(regaddrVadjGroupCount, 1, "cnt"), rd(ovr, 2, "cur"),
                rd(vlt, 2, "tmp"), rd(regaddrVadjStatus, 2, "tmp"),
                wr(ovr, 2),
                rd(ovr, 2, "back"), rd(vlt, 2, "tmp"),
                rd(regaddrVadjStatus, 2, "tmp") >>
        ELSE << rd(regaddrFanCount, 1, "cnt"), rd(cap, 1, "tmp"), rd(cfg, 1, "cur"),
                wr(cfg, 1),
                rd(cfg, 1, "back") >>

\* The checks a command makes on its parameters before it opens the bus.
CmdParamsOk(fn, id, set) ==
    /\ fn = "dpmutilFSetVioConfig" => ~(id < 0)
    /\ fn = "dpmutilFSetFanConfig" => id # 0
    /\ \E k \in DOMAIN set : set[k]

\* Parameters explored, by command.  Flags come in every combination; the
\* values are all 0, or enable / override / enforce = 1 with 3300 mV,
\* speed 3, probe 4.
CmdParams(fn) ==
    LET ids == IF fn = "dpmutilFSetPlatformConfig" THEN {0} ELSE {-1, 0, 1, 2, 4}
        sets == [ 1..(IF fn = "dpmutilFSetPlatformConfig" THEN 4 ELSE 3) -> BOOLEAN ]
        vals == IF fn = "dpmutilFSetPlatformConfig" THEN { <<0, 0, 0, 0>>, <<1, 1, 1, 1>> }
                ELSE IF fn = "dpmutilFSetVioConfig" THEN { <<0, 0, 0>>, <<1, 1, 3300>> }
                ELSE { <<0, 0, 0>>, <<1, 3, 4>> }
    IN  [ id : ids, set : sets, val : vals ]

\* The ways the next call of a command can start.  A buffer the command has
\* not written may hold anything before a 2-byte read; explored are the
\* garbage bytes and the bytes of the value the command has put together
\* (a stale copy).
CmdIssue(c) ==
    LET op == c.prog[c.i]
        stale == IF op.n = 1 \/ op.to = "tmp" THEN {0}
                 ELSE GarbageBytes \cup { c.out[j] : j \in DOMAIN c.out }
    IN  IF op.k = "read"
        THEN { PmcuI2cRead(op.a, FreshBuf(op.n, g), op.n, TRUE) : g \in stale }
        ELSE { PmcuI2cWrite(op.a, op.n, TRUE) }

\* A command up to its first bus operation: the parameter checks, then
\* I2CHALOpenI2cController / I2CHALInit, then the first read.
CallCmd ==
    /\ hal.pc = "idle" /\ cmd.pc = "idle"
    /\ \E fn \in {"dpmutilFSetPlatformConfig", "dpmutilFSetVioConfig",
                    "dpmutilFSetFanConfig"} :
       \E p \in CmdParams(fn), opened \in BOOLEAN :
         LET c == [ cmd EXCEPT !.fn = fn, !.id = p.id, !.set = p.set, !.val = p.val,
                               !.dev0 = cmd.dev, !.prog = CmdProgram(fn, p.id),
                               !.i = 1 ]
         IN  IF ~CmdParamsOk(fn, p.id, p.set) \/ ~opened
             THEN /\ cmd' = [ c EXCEPT !.pc = "done", !.ret = FALSE ]
                  /\ UNCHANGED <<hal, bus>>
             ELSE /\ cmd' = [ c EXCEPT !.pc = "run", !.ctl = "open" ]
                  /\ hal' \in CmdIssue(c)
                  /\ bus' = [ BusIdle EXCEPT !.img = "pmcu" ]
    /\ UNCHANGED <<backend, layout, dna, heap, crcio, cal, zmod, peer>>

\* A call of PmcuI2cRead / PmcuI2cWrite has returned.  A failed call ends the
\* command with fFalse.  The count read first must exceed the id.  Before the
\* write the new register value is put together; after it the Platform MCU
\* holds the value written, or has kept its own.  After the last read the
\* value written is compared with the value read back.
CmdStep ==
    /\ hal.pc = "ret" /\ cmd.pc = "run"
    /\ LET op == cmd.prog[cmd.i]
           c0 == [ cmd EXCEPT !.ops = Append(@, [ k |-> hal.fn, a |-> hal.addr0,
                                                  n |-> hal.cbReq, ok |-> hal.ret ]) ]
           c1 == IF ~hal.ret THEN c0
                 ELSE IF op.to = "cnt" THEN [ c0 EXCEPT !.cnt = hal.buf[1] ]
                 ELSE IF op.to = "cur" THEN [ c0 EXCEPT !.cur = hal.buf ]
                 ELSE IF op.to = "back" THEN [ c0 EXCEPT !.back = hal.buf ]
                 ELSE c0
           stored == [ a \in DOMAIN cmd.dev |->
                         IF op.a <= a /\ a < op.a + op.n
                         THEN cmd.out[a - op.a + 1] ELSE cmd.dev[a] ]
           stop == \/ ~hal.ret
                   \/ op.to = "cnt" /\ cmd.id >= c1.cnt
                   \/ cmd.i = Len(cmd.prog)
           good == hal.ret /\ cmd.i = Len(cmd.prog) /\ c1.out = c1.back
       IN  IF stop
           THEN /\ cmd' = [ c1 EXCEPT !.pc = "done", !.ret = good, !.ctl = "closed" ]
                /\ hal' = HalIdle
                /\ bus' = bus
           ELSE \E kept \in (IF op.k = "write" THEN BOOLEAN ELSE {TRUE}) :
                  LET nx == cmd.prog[cmd.i + 1]
                      new == NewRegister(cmd.fn, RegWord(c1.cur), cmd.set, cmd.val)
                      c2 == [ c1 EXCEPT
                                !.i = @ + 1,
                                !.dev = IF kept THEN @ ELSE stored,
                                !.out = IF nx.k # "write" THEN @
                                        ELSE IF nx.n = 1 THEN << new % ByteMod >>
                                        ELSE << new % ByteMod, new \div ByteMod >> ]
                  IN  /\ cmd' = c2
                      /\ hal' \in CmdIssue(c2)
                      /\ bus' = BusStart
    /\ UNCHANGED <<backend, layout, dna, heap, crcio, cal, zmod, peer>>

\* The Platform MCU before the command: the registers the commands read
\* and write; the fan count and the VADJ group count are 0, 2 or 4.
InitCmd ==
    /\ backend \in Backends
    /\ layout = "adjacent"
    /\ hal = HalIdle
    /\ peer = HalIdle
    /\ bus = BusIdle
    /\ dna = DnaIdle
    /\ heap = HeapIdle
    /\ crcio = CrcIdle
    /\ cal = CalIdle
    /\ zmod = ZmodIdle
    /\ LET regs == {regaddrPlatformConfig, regaddrPlatformConfig + 1,
                    regaddrFanCount, regaddrVadjGroupCount}
                   \cup { regaddrFan1Config + offsetFanReg * k : k \in 0..3 }
                   \cup { regaddrVadjAOverride + offsetVadjReg * k + b :
                            k \in 0..3, b \in 0..1 }
       IN  \E n \in {0, 2, 4} :
             cmd = [ CmdIdle EXCEPT !.dev =
                       [ a \in regs |->
                           IF a \in {regaddrFanCount, regaddrVadjGroupCount} THEN n
                           ELSE FlatByte(a) ] ]

NextCmd ==
    \/ CallCmd \/ CmdStep
    \/ RdSelect \/ RdAddr \/ RdDelay \/ RdData
    \/ WrSelect \/ WrStage \/ WrSend

SpecCmd == InitCmd /\ [][NextCmd]_vars

(***************************************************************************)
(* SyzygyI2cRead, SyzygyI2cWrite with lengths that do not fit a BYTE        *)
(***************************************************************************)
\* WORD lengths above 255: a multiple of 256, and two that leave 1 and 44.
WordLens == {256, 257, 300}

\* A caller hands a WORD length to one of the two SYZYGY wrappers; the
\* wrapper passes it on to the BYTE parameter of I2CHALRead / I2CHALWrite.
CallSyzygyWord ==
    /\ hal.pc = "idle" /\ dna.pc = "idle"
    /\ \E a \in StartAddrs, n \in WordLens, rd \in BOOLEAN :
         hal' = IF rd THEN SyzygyI2cRead(a, FreshBuf(n, 165), n, FALSE)
                ELSE SyzygyI2cWrite(a, n, FALSE)
    /\ bus' = BusStart
    /\ UNCHANGED <<others, backend, layout, dna>>

NextWord ==
    \/ CallSyzygyWord
    \/ RdSelect \/ RdAddr \/ RdDelay \/ RdData
    \/ WrSelect \/ WrStage \/ WrSend \/ WrDelay
    \/ HalReturn

SpecWord == Init /\ [][NextWord]_vars

\* Write lengths explored with every cap: none, one byte, and a few.
CapLens == {0, 1, 5}

\* I2CHALWrite called directly with any small cap, the address-only cap of
\* two bytes (cbDevRxMax = 2) included.
CallI2CHALWriteAnyCap ==
    /\ hal.pc = "idle" /\ dna.pc = "idle"
    /\ \E a \in StartAddrs, n \in CapLens, c \in DirectCaps \cup {2} :
         hal' = I2CHALWrite("I2CHALWrite", a, n, c, FALSE, 0)
    /\ bus' = BusStart
    /\ UNCHANGED <<others, backend, layout, dna>>

NextCap ==
    \/ CallI2CHALWriteAnyCap
    \/ WrSelect \/ WrStage \/ WrSend \/ WrDelay
    \/ HalReturn

SpecCap == Init /\ [][NextCap]_vars

\* Read lengths explored with two threads: one transaction each.
PairLens == {1, 3}

\* Two threads call I2CHALRead on the same handle, one through each wrapper;
\* hal is the frame of the thread that runs, peer that of the other.
CallPair ==
    /\ hal.pc = "idle" /\ peer.pc = "idle" /\ dna.pc = "idle"
    /\ \E a \in StartAddrs, b \in StartAddrs, n \in PairLens, m \in PairLens :
         /\ hal' = SyzygyI2cRead(a, FreshBuf(n, 165), n, FALSE)
         /\ peer' = PmcuI2cRead(b, FreshBuf(m, 165), m, FALSE)
    /\ bus' = BusStart
    /\ UNCHANGED <<backend, layout, dna, heap, crcio, cal, zmod, cmd>>

\* Variant: the running operation keeps the bus until it has returned.
SwitchWhenReturned ==
    /\ peer.pc \notin {"idle", "ret"}
    /\ hal.pc = "ret"
    /\ hal' = peer
    /\ peer' = hal
    /\ UNCHANGED <<backend, layout, bus, dna, heap, crcio, cal, zmod, cmd>>

\* The scheduler runs the other thread.  I2CHALRead holds no lock, so this
\* may happen between any two of its steps.
Switch ==
    /\ peer.pc \notin {"idle", "ret"}
    /\ hal' = peer
    /\ peer' = hal
    /\ UNCHANGED <<backend, layout, bus, dna, heap, crcio, cal, zmod, cmd>>

\* Both threads have returned; their callers take the results.
PairReturn ==
    /\ hal.pc = "ret" /\ peer.pc = "ret"
    /\ hal' = HalIdle
    /\ peer' = HalIdle
    /\ bus' = BusStart
    /\ UNCHANGED <<backend, layout, dna, heap, crcio, cal, zmod, cmd>>

NextPair ==
    \/ CallPair \/ Switch \/ PairReturn
    \/ RdSelect \/ RdAddr \/ RdDelay \/ RdData

SpecPair == Init /\ [][NextPair]_vars

(***************************************************************************)
(* dpmutil.c on Linux: the bus handle and the DNA strings of a command      *)
(***************************************************************************)
\* The frame of a command as far as its handle goes.
CtlIdle ==
    [ pc |-> "idle", fn |-> "none", ret |-> FALSE,
      fd |-> -1,            \* fdI2c
      prog |-> << >>,       \* the steps of the command that can fail, in order
      i |-> 0,              \* the one in progress
      opens |-> 0,          \* handles I2CHALOpenI2cController has returned
      closes |-> 0,         \* calls of close(fdI2c)
      late |-> FALSE ]      \* a bus operation was made on no open handle

Rep(k, n) == [ j \in 1..n |-> k ]

\* One round of the port loop of dpmutilFEnum: seven register reads; for a
\* SYZYGY pod in verbose mode the firmware registers, the DNA header and the
\* DNA strings, then SyzygyFreeDNAStrings; for a Digilent pod the PDID read
\* before that, and for a Zmod ADC or DAC the calibration display.
PortRounds ==
    { Rep("bus", 7),
      Rep("bus", 7) \o << "bus", "bus", "strings", "free" >>,
      Rep("bus", 7) \o << "bus", "bus", "strings", "bus", "free" >>,
      Rep("bus", 7) \o << "bus", "bus", "strings", "bus", "bus", "free" >> }

RECURSIVE PortLoops(_)
PortLoops(n) ==
    IF n = 0 THEN { << >> }
    ELSE PortLoops(n - 1) \cup { a \o b : a \in PortLoops(n - 1), b \in PortRounds }

\* The steps of each command at which it can go to lErrorExit, in source
\* order, every loop taken once: "test" is a check of a parameter or of a
\* value read, "open" is I2CHALOpenI2cController, "bus" a register or pod
\* access.
CtlPrograms(fn) ==
    CASE fn = "dpmutilFGetInfo" -> { << "open" >> \o Rep("bus", 15) }
      [] fn \in {"dpmutilFGetInfo5V0", "dpmutilFGetInfo3V3"} ->
            { << "open", "bus", "test", "bus", "bus" >> }
      [] fn = "dpmutilFGetInfoVio" ->
            { << "open", "bus", "bus", "test" >> \o Rep("bus", 4) }
      [] fn = "dpmutilFEnum" ->
            { << "open", "bus", "bus" >> \o b : b \in PortLoops(MaxPorts) }
      [] fn = "dpmutilFSetPlatformConfig" ->
            { << "test", "open", "bus", "bus", "bus", "test" >> }
      [] fn = "dpmutilFSetVioConfig" ->
            { << "test", "test", "open", "bus", "test" >> \o Rep("bus", 7)
                \o << "test" >> }
      [] fn = "dpmutilFSetFanConfig" ->
            { << "test", "test", "open", "bus", "test" >> \o Rep("bus", 4)
                \o << "test" >> }
      [] fn = "dpmutilFResetPMCU" -> { << "open", "bus" >> }

CtlFunctions ==
    { "dpmutilFGetInfo", "dpmutilFGetInfo5V0", "dpmutilFGetInfo3V3",
      "dpmutilFGetInfoVio", "dpmutilFEnum", "dpmutilFSetPlatformConfig",
      "dpmutilFSetVioConfig", "dpmutilFSetFanConfig", "dpmutilFResetPMCU" }

CtlAt(k) == cmd.pc = "run" /\ cmd.i <= Len(cmd.prog) /\ cmd.prog[cmd.i] = k

\* The process runs one command: fdI2c = -1 (and, in dpmutilFEnum, the
\* memset of szgdnaStrings).
CtlCall ==
    /\ cmd.pc = "idle"
    /\ \E fn \in CtlFunctions : \E p \in CtlPrograms(fn) :
         cmd' = [ cmd EXCEPT !.pc = "run", !.fn = fn, !.prog = p, !.i = 1 ]
    /\ UNCHANGED <<engine, heap, crcio, cal, zmod, peer>>

\* A check of a parameter or of a value read: goto lErrorExit when it fails.
CtlTest ==
    /\ CtlAt("test")
    /\ \E ok \in BOOLEAN :
         cmd' = IF ok THEN [ cmd EXCEPT !.i = @ + 1 ] ELSE [ cmd EXCEPT !.pc = "err" ]
    /\ UNCHANGED <<engine, heap, crcio, cal, zmod, peer>>

\* fdI2c = I2CHALOpenI2cController(); if ( 0 > fdI2c ) goto lErrorExit;
CtlOpen ==
    /\ CtlAt("open")
    /\ \E fd \in {-1, 3} :
         cmd' = IF 0 > fd THEN [ cmd EXCEPT !.fd = fd, !.pc = "err" ]
                ELSE [ cmd EXCEPT !.fd = fd, !.opens = @ + 1, !.i = @ + 1 ]
    /\ UNCHANGED <<engine, heap, crcio, cal, zmod, peer>>

\* The handle fdI2c is one that was opened and has not been closed.
HandleOpen(c) == 0 <= c.fd /\ c.opens = 1 /\ c.closes = 0

\* if ( ! PmcuI2cRead(fdI2c, ...) ) goto lErrorExit; and the like.
CtlBus ==
    /\ CtlAt("bus")
    /\ \E ok \in BOOLEAN :
         LET c == [ cmd EXCEPT !.late = @ \/ ~HandleOpen(cmd) ]
         IN  cmd' = IF ok THEN [ c EXCEPT !.i = @ + 1 ] ELSE [ c EXCEPT !.pc = "err" ]
    /\ UNCHANGED <<engine, heap, crcio, cal, zmod, peer>>

\* if ( ! SyzygyReadDNAStrings(...) ) { SyzygyFreeDNAStrings(&szgdnaStrings);
\* goto lErrorExit; }  A malloc that returns NULL ends the process at the
\* store through it.
CtlStrings ==
    /\ CtlAt("strings")
    /\ \E m \in MallocFails, r \in ReadFails :
         LET c == [ cmd EXCEPT !.late = @ \/ ~HandleOpen(cmd) ]
             h0 == FreeDNAStrings(heap)
         IN  IF m # 0
             THEN /\ cmd' = [ c EXCEPT !.pc = "crashed" ]
                  /\ heap' = [ AllocDNAStrings(h0, m, m) EXCEPT !.fault = "null_store" ]
             ELSE IF r = 0
             THEN /\ cmd' = [ c EXCEPT !.i = @ + 1 ]
                  /\ heap' = AllocDNAStrings(h0, 0, NumStrings)
             ELSE /\ cmd' = [ c EXCEPT !.pc = "err" ]
                  /\ heap' = FreeDNAStrings(AllocDNAStrings(h0, 0, NumStrings))
    /\ UNCHANGED <<engine, crcio, cal, zmod, peer>>

\* SyzygyFreeDNAStrings(&szgdnaStrings) at the end of the round.
CtlFree ==
    /\ CtlAt("free")
    /\ cmd' = [ cmd EXCEPT !.i = @ + 1 ]
    /\ heap' = FreeDNAStrings(heap)
    /\ UNCHANGED <<engine, crcio, cal, zmod, peer>>

\* The normal exit: close(fdI2c); return fTrue;
CtlExit ==
    /\ cmd.pc = "run" /\ cmd.i > Len(cmd.prog)
    /\ cmd' = [ cmd EXCEPT !.pc = "done", !.ret = TRUE, !.closes = @ + 1 ]
    /\ UNCHANGED <<engine, heap, crcio, cal, zmod, peer>>

\* Variant: lErrorExit returns without closing the handle.
CtlErrorExitNoClose ==
    /\ cmd.pc = "err"
    /\ cmd' = [ cmd EXCEPT !.pc = "done", !.ret = FALSE ]
    /\ heap' = IF cmd.fn = "dpmutilFEnum" THEN FreeDNAStrings(heap) ELSE heap
    /\ UNCHANGED <<engine, crcio, cal, zmod, peer>>

\* lErrorExit: if ( 0 <= fdI2c ) close(fdI2c); in dpmutilFEnum also
\* SyzygyFreeDNAStrings(&szgdnaStrings); return fFalse;
CtlErrorExit ==
    /\ cmd.pc = "err"
    /\ cmd' = [ cmd EXCEPT !.pc = "done", !.ret = FALSE,
                           !.closes = IF 0 <= cmd.fd THEN @ + 1 ELSE @ ]
    /\ heap' = IF cmd.fn = "dpmutilFEnum" THEN FreeDNAStrings(heap) ELSE heap
    /\ UNCHANGED <<engine, crcio, cal, zmod, peer>>

InitCtl ==
    /\ EngineIdle
    /\ heap = HeapIdle
    /\ crcio = CrcIdle
    /\ cal = CalIdle
    /\ zmod = ZmodIdle
    /\ cmd = CtlIdle

NextCtl ==
    \/ CtlCall \/ CtlTest \/ CtlOpen \/ CtlBus \/ CtlStrings \/ CtlFree
    \/ CtlExit \/ CtlErrorExit

SpecCtl == InitCtl /\ [][NextCtl]_vars

(***************************************************************************)
(* Properties of the fragmentation engine (specification Spec)              *)
(***************************************************************************)
ReadReturned == hal.pc = "ret" /\ hal.fn = "read"

WriteReturned == hal.pc = "ret" /\ hal.fn = "write"

\* C1: a fully successful I2CHALRead of L bytes has issued exactly ceil(L/32)
\* address-plus-data transactions, the bytes they moved sum to L, and L is the
\* count reported.  (Stated as claimed; the code violates it.)
C1_ReadCeilAndSum ==
    (ReadReturned /\ hal.ret = TRUE) =>
        /\ bus.nAddr = CeilDiv(hal.cb, cbReadMax)
        /\ bus.nData = bus.nAddr
        /\ bus.xfer = hal.cb
        /\ hal.cbOut = hal.cb

\* C2: whenever I2CHALWrite returns success, the payload bytes put on the bus
\* sum to cbWrite and the reported count is cbWrite, for every cbWrite in
\* 0..255 and every cap.  (Stated as claimed; the code violates it.)
C2_WriteSumIsLength ==
    (WriteReturned /\ hal.ret = TRUE) =>
        /\ bus.xfer = hal.cb
        /\ hal.cbOut = hal.cb

\* C3: when an operation returns false, the reported count is the number of
\* bytes moved by the transactions that succeeded before the failing one.
\* (Stated as claimed; the code violates it.)
C3_FailureReportsMoved ==
    (hal.pc = "ret" /\ hal.ret = FALSE) => hal.cbOut = bus.xfer

\* C4: no retry.  Once a transport call has failed the operation has returned
\* false, and it makes no further transport call: the only step left is the
\* caller taking the result.
C4_NoRetry ==
    [][ bus.failed =>
          /\ hal.pc = "ret" /\ hal.ret = FALSE
          /\ (bus'.nCall = bus.nCall \/ hal'.pc = "idle") ]_vars

\* C4 witness: a failure after at least one transaction had succeeded.
C4_Witness ==
    /\ bus.failed /\ bus.nData >= 1
    /\ hal.pc = "ret" /\ hal.ret = FALSE

\* C5: every transaction starts with the full 2-byte big-endian address equal
\* to the start address plus the bytes really moved so far (mod 2^16), and
\* works on the caller's buffer at that same offset.  (Stated as claimed; the
\* code violates it.)
C5_AddressFollowsMoved ==
    (bus.tx.kind # "none") =>
        /\ Len(bus.tx.frame) >= 2
        /\ AddrOf(bus.tx.frame) = (hal.addr0 + bus.tx.before) % WordMod
        /\ bus.tx.off = bus.tx.before

PmcuWriteReturnedOk ==
    WriteReturned /\ hal.entry = "PmcuI2cWrite" /\ hal.ret = TRUE

\* C6 as claimed: PmcuI2cWrite carries up to 6 payload bytes per transaction,
\* so L <= 6 bytes go in one transaction of L + 2 bytes and L bytes take
\* ceil(L/6) transactions.
C6_SixPayloadBytes ==
    PmcuWriteReturnedOk =>
        /\ bus.nAddr = CeilDiv(hal.cb, cbPmcuRxMaxPmcu)
        /\ (0 < hal.cb /\ hal.cb <= cbPmcuRxMaxPmcu => bus.tx.len = hal.cb + 2)

\* C6 amended: every PmcuI2cWrite transaction is at most 6 bytes long, the 2
\* address bytes included, i.e. at most 4 payload bytes; a write of 1..4 bytes
\* is one transaction of L + 2 bytes, and a successful write of L <= 253 bytes
\* takes ceil(L/4) transactions.  For L = 254 and 255 the byte-wide length
\* 2 + L wraps: the write is a single transaction of L - 254 bytes that
\* carries no payload.
C6_FourPayloadBytes ==
    (hal.entry = "PmcuI2cWrite") =>
        /\ (bus.tx.kind = "write" => bus.tx.len <= cbPmcuRxMaxPmcu)
        /\ (PmcuWriteReturnedOk /\ hal.cb + 2 < ByteMod =>
               /\ bus.nAddr = CeilDiv(hal.cb, cbPmcuRxMaxPmcu - 2)
               /\ bus.xfer = hal.cb
               /\ (0 < hal.cb /\ hal.cb <= cbPmcuRxMaxPmcu - 2 =>
                      bus.nAddr = 1 /\ bus.tx.len = hal.cb + 2))
        /\ (PmcuWriteReturnedOk /\ hal.cb + 2 >= ByteMod =>
               /\ bus.nAddr = 1
               /\ bus.tx.len = (hal.cb + 2) % ByteMod
               /\ bus.xfer = 0)

\* C6 witness: a successful 9-byte PmcuI2cWrite, in three transactions.
C6_Witness ==
    PmcuWriteReturnedOk /\ hal.cb = 9 /\ bus.nAddr = 3 /\ bus.tx.len = 3

\* C7 as claimed: a zero-length read or write issues no transaction and
\* returns success with a count of 0.
C7_ZeroLengthSucceeds ==
    (hal.pc = "ret" /\ hal.cbReq = 0) =>
        /\ bus.nAddr = 0 /\ bus.nData = 0
        /\ hal.ret = TRUE /\ hal.cbOut = 0

\* C7 amended: a zero-length read or write issues no address or data
\* transaction and no delay and reports a count of 0; it returns success
\* unless the slave-address selection of the Linux backend fails, and then it
\* returns false.
C7_ZeroLengthNoTransaction ==
    (hal.pc = "ret" /\ hal.cbReq = 0) =>
        /\ bus.nAddr = 0 /\ bus.nData = 0 /\ bus.nDelay = 0
        /\ hal.cbOut = 0
        /\ hal.ret = ~bus.failed
        /\ (bus.failed => backend = "linux" /\ bus.nCall = 1)

\* C7 witness: a zero-length SyzygyI2cRead that returned success on Linux.
C7_Witness ==
    /\ hal.pc = "ret" /\ hal.cbReq = 0 /\ hal.entry = "SyzygyI2cRead"
    /\ backend = "linux" /\ hal.ret = TRUE /\ bus.nCall = 1

\* The delays of a write lie between its transactions: none is pending or
\* done before the first transaction, one follows every successful
\* transaction but the last.
WriteDelaysBetween ==
    /\ (hal.pc \in {"wr_sel", "wr_stage", "wr_send"} => bus.nDelay = bus.nData)
    /\ (hal.pc = "wr_wait" => bus.nData >= 1 /\ bus.nDelay = bus.nData - 1)
    /\ (hal.pc = "ret" /\ hal.ret = FALSE => bus.nDelay = bus.nData)
    /\ (hal.pc = "ret" /\ hal.ret = TRUE =>
           bus.nDelay = IF bus.nData = 0 THEN 0 ELSE bus.nData - 1)

PodHeader == [ i \in 1..cbSyzygyDnaHeader |-> PodByte(bus.img, addrDnaStart + (i - 1)) ]

HeaderReturned == dna.pc = "ret" /\ dna.fn = "hdr"

\* C8: SyzygyReadDNAHeader reads 40 bytes at 0x8000; it returns false and
\* leaves the caller's header untouched when the read fails or when fCheckCrc
\* is set and the CRC-16 of the 40 raw bytes is nonzero; otherwise it copies
\* the 40 raw bytes and returns true.  With all 40 bytes really moved, the raw
\* bytes are the slave's, so a slave with a valid header is accepted and one
\* with a flipped bit is rejected exactly when fCheckCrc is set.
C8_ReadDNAHeader ==
    /\ (dna.pc = "hdr" =>
           hal.fn = "read" /\ hal.addr0 = addrDnaStart /\ hal.cb = cbSyzygyDnaHeader)
    /\ (HeaderReturned =>
           LET crcBad == SyzygyComputeCRC(dna.raw, cbSyzygyDnaHeader) # 0
               reject == ~dna.readOk \/ (dna.fCheckCrc /\ crcBad)
           IN  /\ dna.ret = ~reject
               /\ (~dna.hdrNull => dna.hdr = IF reject THEN dna.hdr0 ELSE dna.raw)
               /\ (dna.readOk /\ bus.xfer = cbSyzygyDnaHeader =>
                      /\ dna.raw = PodHeader
                      /\ (bus.img = "good" => dna.ret = TRUE)
                      /\ (bus.img = "bad" => dna.ret = ~dna.fCheckCrc)))

\* C8 witness: a header with a nonzero CRC, read with fCheckCrc clear, was
\* copied to the caller and the call returned true.
C8_Witness ==
    /\ HeaderReturned /\ dna.ret = TRUE /\ ~dna.fCheckCrc /\ ~dna.hdrNull
    /\ bus.img = "bad" /\ dna.hdr = BadHeader

\* Sum of the declared lengths of the fields before field k.
DeclaredBefore(ls, k) ==
    LET sum[j \in 0..NumStrings] == IF j = 0 THEN 0 ELSE sum[j - 1] + ls[j]
    IN  sum[k - 1]

StringsRunning == dna.fn = "str" /\ dna.idx > 0

\* C9 as claimed: the k-th read issued is that of field k, starts at
\* 0x8000 + cbDnaHeader + (declared lengths of fields 1..k-1) and asks for
\* the declared length of field k.
C9_StringAddresses ==
    StringsRunning =>
        \A k \in 1..Len(dna.reqs) :
            dna.reqs[k] = << addrDnaStart + dna.cbDnaHeader + DeclaredBefore(dna.lens, k),
                             dna.lens[k] >>

\* C9 amended: the same, with the start address taken modulo 2^16 (addrRead
\* is a WORD); and the engine is entered with exactly that address and length.
C9_StringAddressesWord ==
    StringsRunning =>
        /\ \A k \in 1..Len(dna.reqs) :
              dna.reqs[k] =
                << (addrDnaStart + dna.cbDnaHeader + DeclaredBefore(dna.lens, k)) % WordMod,
                   dna.lens[k] >>
        /\ Len(dna.reqs) = dna.idx
        /\ (dna.pc = "str" =>
               /\ hal.fn = "read"
               /\ hal.addr0 = dna.reqs[dna.idx][1]
               /\ hal.cbReq = dna.reqs[dna.idx][2])

\* C9 witness: all five reads were issued, behind a header length that wraps
\* the address and after two non-empty fields.
C9_Witness ==
    /\ StringsRunning /\ dna.pc = "ret" /\ dna.ret = TRUE
    /\ Len(dna.reqs) = NumStrings
    /\ addrDnaStart + dna.cbDnaHeader >= WordMod
    /\ dna.lens[1] > 0 /\ dna.lens[2] > 0

\* C10: when SyzygyReadDNAStrings succeeds, string k is the declared number of
\* bytes of the slave's memory at the field's address followed by a NUL at
\* index = declared length, and a zero-length field took no bus transaction.
\* (Stated as claimed; the code violates it.)
C10_StringsAreSlaveBytes ==
    (StringsRunning /\ dna.pc = "ret" /\ dna.ret = TRUE) =>
        \A k \in 1..NumStrings :
            /\ dna.strs[k] =
                 [ i \in 1..(dna.lens[k] + 1) |->
                     IF i <= dna.lens[k]
                     THEN PodByte(bus.img, dna.reqs[k][1] + (i - 1))
                     ELSE 0 ]
            /\ (dna.lens[k] = 0 => dna.txs[k] = 0)

(***************************************************************************)
(* Properties of the string buffers (specification SpecHeap)                *)
(***************************************************************************)
HeldBuffers == { heap.sz[k] : k \in 1..NumStrings } \ {0}

\* The structure and the heap agree: no dangling field, no leaked buffer, no
\* free of a dead buffer, at most five buffers live.
HeapConsistent ==
    /\ Cardinality(heap.live) <= NumStrings
    /\ HeldBuffers \subseteq heap.live
    /\ heap.live \subseteq HeldBuffers
    /\ heap.fault # "free_dead"

\* C11: starting from a zero-initialised SzgDnaStrings, after any sequence of
\* SyzygyReadDNAStrings and SyzygyFreeDNAStrings calls at most five buffers
\* are live, every field is NULL or points to a live buffer, nothing is leaked
\* or freed twice, a SyzygyReadDNAStrings that got past its NULL check runs to
\* its return and leaves all five fields allocated, and SyzygyFreeDNAStrings
\* leaves all five fields NULL.  (Stated as claimed; the code violates it.)
C11_StringHeap ==
    /\ HeapConsistent
    /\ heap.pc # "crashed"
    /\ (heap.fn = "read" /\ ~heap.argNull /\ heap.pc \in {"reads", "ret"} =>
           \A k \in 1..NumStrings : heap.sz[k] # 0)
    /\ (heap.fn = "free" /\ ~heap.argNull /\ heap.pc = "ret" =>
           \A k \in 1..NumStrings : heap.sz[k] = 0)

(***************************************************************************)
(* Properties of SyzygyComputeCRC (specification SpecCrc)                   *)
(***************************************************************************)
\* The textbook CRC register: shift left one bit, and subtract the
\* polynomial 0x1021 when the bit shifted out was set.
CrcShiftBit(c) ==
    IF c >= 32768 THEN Xor4((c * 2) % WordMod, 4129, 0, 0) ELSE c * 2

\* The register after one data byte, MSB first: the byte is added to the top
\* of the register and the register is shifted eight times.
CrcBitwiseByte(c, b) ==
    LET r[j \in 0..8] == IF j = 0 THEN Xor4(c, b * 256, 0, 0)
                         ELSE CrcShiftBit(r[j - 1])
    IN  r[8]

\* Bit-by-bit CRC-16, polynomial 0x1021, initial value 0xFFFF, no final XOR.
CrcBitwise(buf) ==
    LET c[i \in 0..Len(buf)] ==
          IF i = 0 THEN WordMod - 1
          ELSE LET prev == c[i - 1]
               IN  IF prev < WordMod THEN CrcBitwiseByte(prev, buf[i]) ELSE 0
    IN  c[Len(buf)]

\* C12: for every buffer SyzygyComputeCRC returns the bit-by-bit CRC-16 with
\* polynomial 0x1021, initial value 0xFFFF and no final XOR; the empty buffer
\* gives 0xFFFF and the result fits in 16 bits.
C12_CrcIsCcitt ==
    (crcio.pc = "done") =>
        /\ crcio.out = CrcBitwise(crcio.buf)
        /\ crcio.out \in 0..(WordMod - 1)
        /\ (crcio.buf = << >> => crcio.out = WordMod - 1)

\* C12 witness: the digits "123456789" gave 0x29B1, the published check value
\* of this CRC.
C12_Witness ==
    crcio.pc = "done" /\ crcio.buf = CheckString /\ crcio.out = 10673

\* C13: the CRC of a buffer followed by its own CRC, high byte first, is 0.
C13_SealedIsZero ==
    (crcio.pc = "sealed") => crcio.out = 0

\* C13 witness: a DNA header completed with its CRC bytes reduced to 0.
C13_Witness ==
    crcio.pc = "sealed" /\ crcio.buf = GoodHeader /\ crcio.out = 0

\* C14: flipping any single bit of a buffer whose CRC is 0 gives a buffer
\* whose CRC is not 0, so that SyzygyReadDNAHeader with fCheckCrc set rejects
\* it.
C14_BitFlipDetected ==
    (crcio.pc = "flipped" /\ crcio.was = 0) =>
        /\ crcio.out # 0
        /\ (Len(crcio.buf) = cbSyzygyDnaHeader => ~HeaderAccepted(TRUE, crcio.buf, TRUE))

\* C14 witness: the last bit of the last CRC byte of a valid DNA header was
\* flipped.
C14_Witness ==
    /\ crcio.pc = "flipped" /\ crcio.was = 0 /\ crcio.out # 0
    /\ crcio.bit = 8 * cbSyzygyDnaHeader - 1
    /\ crcio.buf = FlipBit(GoodHeader, 8 * cbSyzygyDnaHeader - 1)

(***************************************************************************)
(* Properties of the calibration coefficients (specification SpecCal)       *)
(***************************************************************************)
\* The values an 18-bit field in a 32-bit container can hold.
S18Values == 0..(2 ^ 18 - 1)

\* C17: every value a coefficient function returns and every cell a record
\* converter writes lies in 0..2^18-1, whatever gain or offset is stored
\* (out of range, infinite and NaN ones included), and every call returns:
\* there is no failure outcome.
C17_CoefInS18 ==
    /\ cal.pc \in {"idle", "done"}
    /\ cal.pc = "done" =>
          /\ cal.fn \in CoefFunctions => cal.out \in S18Values
          /\ cal.fn \notin CoefFunctions =>
                /\ Len(cal.ret) = (IF cal.fn = "FZmodADCCalConvertToS18" THEN 8
                                   ELSE 4 * cbDigitizerCalibHzSteps)
                /\ \A c \in 1..Len(cal.ret) : cal.ret[c] \in S18Values

\* A digitizer record with a NaN and an infinity among its cells has been
\* converted, and one of its additive coefficients has wrapped: the offset
\* 1.0 asks for 2^17, which does not fit a signed 18-bit field.
C17_Witness ==
    /\ cal.pc = "done"
    /\ cal.fn = "FZmodDigitizerCalConvertToS18"
    /\ \E c \in 1..Len(cal.rec) : cal.rec[c].k = "nan"
    /\ \E c \in 1..Len(cal.rec) : cal.rec[c].k = "inf"
    /\ \E c \in 1..Len(cal.rec) :
         c % 2 = 0 /\ cal.rec[c] = Rat(1, 1) /\ cal.ret[c] = 2 ^ 17
    /\ \A c \in 1..Len(cal.ret) : cal.ret[c] \in S18Values

\* C18: the mask is two's-complement truncation of the rounded integer:
\* the value returned is ival mod 2^18; a rounded value in -2^17..-1 comes
\* back as ival + 2^18 with bit 17 set, one in 0..2^17-1 comes back unchanged
\* with bit 17 clear, and the sign is never extended into bits 18..31.
C18_MaskIsTruncation ==
    (cal.pc = "done" /\ cal.fn \in CoefFunctions) =>
        /\ cal.out = cal.ival % (2 ^ 18)
        /\ cal.ival \in (-(2 ^ 17))..(-1) =>
              cal.out = cal.ival + 2 ^ 18 /\ Bit(cal.out, 17) = 1
        /\ cal.ival \in 0..(2 ^ 17 - 1) =>
              cal.out = cal.ival /\ Bit(cal.out, 17) = 0
        /\ cal.out \in S18Values

\* ComputeAddCoefADC1410 at high gain, handed the offset -0.125, has rounded
\* -16384.0 to -16383 and returned 0x3C001.
C18_Witness ==
    /\ cal.pc = "done"
    /\ cal.fn = "ComputeAddCoefADC1410"
    /\ cal.hi
    /\ cal.rec[2] = Rat(-1, 8)
    /\ cal.ival = -16383
    /\ cal.out = 245761

\* A coefficient function has returned and its fval is a number.
CoefDone == cal.pc = "done" /\ cal.fn \in CoefFunctions /\ cal.fval.k = "fin"

\* i is the truncation toward zero of the rational h.
IsTruncOf(i, h) ==
    IF h.n >= 0 THEN i >= 0 /\ i * h.d <= h.n /\ h.n < (i + 1) * h.d
    ELSE i <= 0 /\ (i - 1) * h.d < h.n /\ h.n <= i * h.d

\* No integer is nearer to the rational x than i is.
IsNearest(i, x) == 2 * Abs(i * x.d - x.n) <= x.d

\* C19 as claimed: the integer before the mask is the truncation toward
\* zero of fval + 0.5; for fval >= 0 that is round-half-up; for every
\* negative fval with a nonzero fractional part it is not a nearest integer.
C19_AsClaimed ==
    CoefDone =>
        LET h == FAdd(cal.fval, Rat(1, 2))
        IN  /\ IsTruncOf(cal.ival, h)
            /\ cal.fval.n >= 0 => cal.ival * h.d <= h.n /\ h.n < (cal.ival + 1) * h.d
            /\ (cal.fval.n < 0 /\ cal.fval.d # 1) => ~IsNearest(cal.ival, cal.fval)

\* C19, amended: the integer before the mask is the truncation toward zero
\* of fval + 0.5.  For fval >= -0.5 that is round-half-up and a nearest
\* integer (0 for fval in [-0.5, 0)).  For fval < -0.5 it is the ceiling
\* of fval + 0.5: the upper of the two nearest integers when fval + 0.5 is
\* an integer, and otherwise one above the nearest integer, negative
\* integers included (-1.75 gives -1, -1.25 gives 0, -16384.0 gives -16383).
C19_TruncHalf ==
    CoefDone =>
        LET h == FAdd(cal.fval, Rat(1, 2))
        IN  /\ IsTruncOf(cal.ival, h)
            /\ h.n >= 0 =>
                  /\ cal.ival * h.d <= h.n /\ h.n < (cal.ival + 1) * h.d
                  /\ IsNearest(cal.ival, cal.fval)
            /\ (h.n < 0 /\ h.d = 1) =>
                  cal.ival = h.n /\ IsNearest(cal.ival, cal.fval)
            /\ (h.n < 0 /\ h.d # 1) =>
                  /\ ~IsNearest(cal.ival, cal.fval)
                  /\ IsNearest(cal.ival - 1, cal.fval)

\* ComputeAddCoefDigitizer has computed fval = -1.75 and rounded it to -1.
C19_Witness ==
    /\ cal.pc = "done"
    /\ cal.fn = "ComputeAddCoefDigitizer"
    /\ cal.fval = Rat(-7, 4)
    /\ cal.ival = -1
    /\ cal.out = 2 ^ 18 - 1

\* C20: with the stored gain 0.0 each multiplicative coefficient is
\* round(ratio * 2^16) & 0x3FFFF, ratio being real/ideal for the ADC
\* (1.086/1.0 at high gain, 26.25/25.0 at low gain) and the digitizer
\* (1.055/1.0) and ideal/real for the DAC (5.0/5.32 and 1.25/1.33); with the
\* stored offset 0.0 each additive coefficient is 0.
C20_ZeroCalibration ==
    LET Round16(num, den) == ((2 * num * 65536 + den) \div (2 * den)) % (2 ^ 18)
    IN  (cal.pc = "done" /\ cal.fn \in CoefFunctions) =>
          /\ cal.rec[1] = Rat(0, 1) =>
                /\ (cal.fn = "ComputeMultCoefADC1410" /\ cal.hi) =>
                      cal.out = Round16(1086, 1000)
                /\ (cal.fn = "ComputeMultCoefADC1410" /\ ~cal.hi) =>
                      cal.out = Round16(2625, 2500) /\ cal.out = 68813
                /\ (cal.fn = "ComputeMultCoefDAC1411" /\ cal.hi) =>
                      cal.out = Round16(500, 532)
                /\ (cal.fn = "ComputeMultCoefDAC1411" /\ ~cal.hi) =>
                      cal.out = Round16(125, 133)
                /\ cal.fn = "ComputeMultCoefDigitizer" =>
                      cal.out = Round16(1055, 1000)
          /\ cal.rec[2] = Rat(0, 1) =>
                (cal.fn \in { "ComputeAddCoefADC1410", "ComputeAddCoefDAC1411",
                              "ComputeAddCoefDigitizer" } => cal.out = 0)

\* ComputeMultCoefADC1410 at low gain, handed the gain 0.0, has returned
\* 0x10CCD.
C20_Witness ==
    /\ cal.pc = "done"
    /\ cal.fn = "ComputeMultCoefADC1410"
    /\ ~cal.hi
    /\ cal.rec[1] = Rat(0, 1)
    /\ cal.out = 68813

(***************************************************************************)
(* Properties of the Zmod identification (specification SpecZmod)           *)
(***************************************************************************)
\* C21: FZmodDigitizerGetFrequencyStepMHz returns 122.88 (the float nearest
\* to it) for 0, the byte itself as MHz for 50, 80, 100, 110, 120 and 125,
\* and 0.0 for every other byte; it has no other outcome.
C21_FrequencySteps ==
    (zmod.pc = "done" /\ zmod.fn = "FZmodDigitizerGetFrequencyStepMHz") =>
        LET f == zmod.mhz
        IN  /\ f.k = "fin"
            /\ zmod.hz = 0 =>
                  /\ (2 ^ 17) % f.d = 0
                  /\ Abs(f.n * 25 - 3072 * f.d) * ((2 ^ 18) \div f.d) <= 25
            /\ zmod.hz \in {50, 80, 100, 110, 120, 125} => f.n = zmod.hz /\ f.d = 1
            /\ zmod.hz \notin {0, 50, 80, 100, 110, 120, 125} => f.n = 0 /\ f.d = 1

\* The byte 99 has been looked up and 0.0 has come back.
C21_Witness ==
    /\ zmod.pc = "done"
    /\ zmod.fn = "FZmodDigitizerGetFrequencyStepMHz"
    /\ zmod.hz = 99
    /\ zmod.mhz = Rat(0, 1)

\* C22: decoding a PDID is a lookup on fixed bit fields.  FZmodIsADC holds
\* iff bits 31:20 are 0x801; FGetZmodADCVariant looks at bits 19:8 only and
\* maps 0x002, 0x012, 0x022, 0x032, 0x042, 0x052, 0x062 to 1410_105, 1010_40,
\* 1210_40, 1410_40, 1010_125, 1210_125, 1410_125; FGetZmodADCResolution
\* gives 14, 12 or 10 by the variant; 0x80100200 is ADC, 1410_105, 14.
C22_PdidDecoding ==
    LET hi == zmod.Pdid[1]
        lo == zmod.Pdid[2]
        sel == (hi % 16) * 256 + lo \div 256
        table == [ x \in {2, 18, 34, 50, 66, 82, 98} |->
                     CASE x = 2 -> "ZMOD_ADC_VARIANT_1410_105"
                       [] x = 18 -> "ZMOD_ADC_VARIANT_1010_40"
                       [] x = 34 -> "ZMOD_ADC_VARIANT_1210_40"
                       [] x = 50 -> "ZMOD_ADC_VARIANT_1410_40"
                       [] x = 66 -> "ZMOD_ADC_VARIANT_1010_125"
                       [] x = 82 -> "ZMOD_ADC_VARIANT_1210_125"
                       [] x = 98 -> "ZMOD_ADC_VARIANT_1410_125" ]
    IN  zmod.pc = "done" =>
          /\ FZmodIsADC(zmod.Pdid) <=> (hi \div 16 = 2049)
          /\ zmod.fn = "FGetZmodFamily" =>
                (zmod.family = "ZMOD_FAMILY_ADC" <=> hi \div 16 = 2049)
          /\ zmod.fn = "FGetZmodADCVariant" =>
                /\ sel \in DOMAIN table => zmod.ret /\ zmod.pVariant = table[sel]
                /\ \A q \in Pdids :
                     (q[1] % 16) * 256 + q[2] \div 256 = sel =>
                         FGetZmodADCVariant(q).pVariant = zmod.pVariant
          /\ zmod.fn = "FGetZmodADCResolution" =>
                /\ zmod.variant \in { table[2], table[50], table[98] } =>
                      zmod.ret /\ zmod.resolution = 14
                /\ zmod.variant \in { table[34], table[82] } =>
                      zmod.ret /\ zmod.resolution = 12
                /\ zmod.variant \in { table[18], table[66] } =>
                      zmod.ret /\ zmod.resolution = 10
          /\ zmod.Pdid = << 32784, 512 >> =>
                /\ FGetZmodFamily(zmod.Pdid).family = "ZMOD_FAMILY_ADC"
                /\ FGetZmodADCVariant(zmod.Pdid).pVariant = table[2]
                /\ FGetZmodADCResolution(FGetZmodADCVariant(zmod.Pdid).pVariant, 0)
                     = [ ret |-> TRUE, resolution |-> 14 ]

\* FGetZmodADCVariant has decoded 0x80100200 to the variant 1410_105.
C22_Witness ==
    /\ zmod.pc = "done"
    /\ zmod.fn = "FGetZmodADCVariant"
    /\ zmod.Pdid = << 32784, 512 >>
    /\ zmod.ret
    /\ zmod.pVariant = "ZMOD_ADC_VARIANT_1410_105"

\* C23: an unrecognised identification value gives an explicit unsupported
\* result.  FGetZmodFamily stores ZMOD_FAMILY_UNSUPPORTED for every PDID
\* whose bits 31:20 are no family's product code; the variant functions
\* store their UNSUPPORTED value and return false for every selector not
\* listed; the resolution functions return false for the unsupported
\* variant and leave *pResolution as it was.  Every call returns.
C23_UnsupportedIsExplicit ==
    [][ LET hi == zmod.Pdid[1]
            sel == (hi % 16) * 256 + zmod.Pdid[2] \div 256
            z == zmod'
        IN  zmod.pc = "idle" =>
              /\ z.pc = "done"
              /\ (z.fn = "FGetZmodFamily" /\ hi \div 16 \notin {2049, 2050}) =>
                    z.family = "ZMOD_FAMILY_UNSUPPORTED"
              /\ (z.fn = "FGetZmodADCVariant"
                    /\ sel \notin {2, 18, 34, 50, 66, 82, 98}) =>
                    ~z.ret /\ z.pVariant = "ZMOD_ADC_VARIANT_UNSUPPORTED"
              /\ (z.fn = "FGetZmodDigitizerVariant" /\ sel # 97) =>
                    ~z.ret /\ z.pVariant = "ZMOD_DIGITIZER_VARIANT_UNSUPPORTED"
              /\ (z.fn = "FGetZmodADCResolution"
                    /\ zmod.variant = "ZMOD_ADC_VARIANT_UNSUPPORTED") =>
                    ~z.ret /\ z.resolution = zmod.resolution
              /\ (z.fn = "FGetZmodDigitizerResolution"
                    /\ zmod.variant = "ZMOD_DIGITIZER_VARIANT_UNSUPPORTED") =>
                    ~z.ret /\ z.resolution = zmod.resolution ]_vars

\* FGetZmodADCResolution has returned false for the unsupported variant and
\* the caller's resolution still holds the 7 it held before.
C23_Witness ==
    /\ zmod.pc = "done"
    /\ zmod.fn = "FGetZmodADCResolution"
    /\ zmod.variant = "ZMOD_ADC_VARIANT_UNSUPPORTED"
    /\ ~zmod.ret
    /\ zmod.resolution = 7

\* C30: FGetZmodFamily returns false when the PDID belongs to no supported
\* family and true otherwise.
C30_FamilyReturn ==
    (zmod.pc = "done" /\ zmod.fn = "FGetZmodFamily") =>
        (zmod.ret <=> zmod.family # "ZMOD_FAMILY_UNSUPPORTED")

(***************************************************************************)
(* Properties of the calibration-record readers (specification SpecZcal)    *)
(***************************************************************************)
RECURSIVE ByteSum(_)
ByteSum(s) == IF s = << >> THEN 0 ELSE Head(s) + ByteSum(Tail(s))

\* Every read the function issued moved all the bytes it asked for.
AllMoved == \A i \in 1..Len(zmod.reads) : zmod.reads[i].moved = zmod.reads[i].cb

\* C24: a calibration record is accepted exactly when the byte-wise sum of
\* its 128 bytes is 0 modulo 256: a reader that returns true after two
\* complete reads holds two records whose byte sums are 0.
C24_ChecksumDecides ==
    (zmod.pc = "ret" /\ zmod.ret /\ AllMoved) =>
        /\ ByteSum(zmod.fact) % ByteMod = 0
        /\ ByteSum(zmod.user) % ByteMod = 0

\* C26: the factory record is read first at 0x8100 and the user record
\* second at 0x7000, 128 bytes each; true is returned only if both reads
\* delivered all 128 bytes; when the factory read fails no user read is
\* issued, the caller's user record is unchanged and false is returned.
C26_BothRecordsOrFalse ==
    (zmod.pc = "ret") =>
        /\ zmod.reads[1].addr = 33024 /\ zmod.reads[1].cb = 128
        /\ Len(zmod.reads) = 2 =>
              zmod.reads[2].addr = 28672 /\ zmod.reads[2].cb = 128
        /\ zmod.ret => (Len(zmod.reads) = 2 /\ AllMoved)
        /\ ~zmod.reads[1].ok =>
              /\ Len(zmod.reads) = 1
              /\ zmod.user = FreshBuf(cbZmodCal, 238)
              /\ ~zmod.ret

(***************************************************************************)
(* Properties of the WORD lengths (specification SpecWord)                  *)
(***************************************************************************)
\* C25: SyzygyI2cRead and SyzygyI2cWrite honour their 16-bit length: a call
\* that returns success has transferred exactly cbRead / cbWrite bytes and
\* reports that count, also for lengths of 256 and above.
C25_WordLengthHonoured ==
    (hal.pc = "ret" /\ hal.ret = TRUE
        /\ hal.entry \in {"SyzygyI2cRead", "SyzygyI2cWrite"}) =>
        /\ bus.xfer = hal.cbReq
        /\ hal.cbOut = hal.cbReq

(***************************************************************************)
(* Properties of the dpmutil set commands (specification SpecCmd)           *)
(***************************************************************************)
\* The n-byte register at address a of device d.
DevReg(d, a, n) == IF n = 1 THEN d[a] ELSE d[a] + ByteMod * d[a + 1]

CmdDone(fn) == cmd.pc = "done" /\ cmd.fn = fn

\* The kinds of the bus operations that have returned.
OpKinds == [ j \in 1..Len(cmd.ops) |-> cmd.ops[j].k ]

IsPrefix(p, q) == Len(p) <= Len(q) /\ \A j \in 1..Len(p) : p[j] = q[j]

\* C27: dpmutilFSetPlatformConfig reads PLATFORM_CONFIGURATION, writes that
\* value back with only the selected fields replaced (every other field and
\* the reserved bits as in the register), reads the register again and
\* returns true only if the register then holds the value written; with no
\* set-flag it returns false without any bus access.
C27_ReadModifyWriteVerify ==
    CmdDone("dpmutilFSetPlatformConfig") =>
        LET old == DevReg(cmd.dev0, regaddrPlatformConfig, 2)
            new == RegWord(cmd.out)
        IN  /\ (\A k \in 1..4 : ~cmd.set[k]) => (~cmd.ret /\ cmd.ops = << >>)
            /\ \A j \in 1..Len(cmd.ops) :
                  cmd.ops[j].a = regaddrPlatformConfig /\ cmd.ops[j].n = 2
            /\ IsPrefix(OpKinds, << "read", "write", "read" >>)
            /\ (Len(cmd.ops) >= 2 /\ cmd.ops[2].ok) =>
                  \A b \in 0..15 :
                    Bit(new, b) = IF b < 4 /\ cmd.set[b + 1] THEN cmd.val[b + 1]
                                  ELSE Bit(old, b)
            /\ cmd.ret =>
                  /\ Len(cmd.ops) = 3
                  /\ DevReg(cmd.dev, regaddrPlatformConfig, 2) = new

\* C28: dpmutilFSetVioConfig issues no write unless 0 <= chanid < the VADJ
\* group count of the device and a set-flag is true; the only register it
\* writes is the 2-byte VADJ_n_OVERRIDE of channel chanid, at
\* 0x804A + 8 * chanid; it returns true only if that register, read back
\* afterwards, holds the value written.
C28_VioWriteGuardedAndVerified ==
    CmdDone("dpmutilFSetVioConfig") =>
        LET writes == { j \in 1..Len(cmd.ops) : cmd.ops[j].k = "write" }
            ovr == 32842 + 8 * cmd.id
        IN  /\ writes # {} =>
                  /\ 0 <= cmd.id
                  /\ cmd.id < DevReg(cmd.dev0, regaddrVadjGroupCount, 1)
                  /\ \E k \in 1..3 : cmd.set[k]
            /\ \A j \in writes : cmd.ops[j].a = ovr /\ cmd.ops[j].n = 2
            /\ cmd.ret =>
                  /\ writes # {}
                  /\ DevReg(cmd.dev, ovr, 2) = RegWord(cmd.out)

\* C29: for every fanid n with 1 <= n <= the fan count of the device,
\* dpmutilFSetFanConfig reads and writes the FAN_n_CAPABILITIES and
\* FAN_n_CONFIGURATION registers of fan n (configuration address
\* 0x8019 + 4 * (n - 1)), and when no bus operation fails it writes the
\* configuration: every fan the device reports can be configured.
C29_FanIdIsOneBased ==
    (/\ CmdDone("dpmutilFSetFanConfig")
     /\ 1 <= cmd.id /\ cmd.id <= DevReg(cmd.dev0, regaddrFanCount, 1)
     /\ \E k \in 1..3 : cmd.set[k]
     /\ cmd.ctl = "closed") =>
        LET cfg == 32793 + 4 * (cmd.id - 1)
        IN  /\ \A j \in 2..Len(cmd.ops) : cmd.ops[j].a \in {cfg - 1, cfg}
            /\ (\A j \in 1..Len(cmd.ops) : cmd.ops[j].ok) =>
                  \E j \in 1..Len(cmd.ops) :
                    cmd.ops[j].k = "write" /\ cmd.ops[j].a = cfg

(***************************************************************************)
(* Properties of the family predicates (specification SpecZmod)             *)
(***************************************************************************)
\* C36: for every PDID at most one of FZmodIsADC, FZmodIsDAC and
\* FZmodIsDigitizer holds, and FGetZmodFamily reports ZMOD_FAMILY_DIGITIZER
\* for every PDID for which FZmodIsDigitizer holds.
C36_FamiliesDisjoint ==
    (zmod.pc = "done" /\ zmod.fn = "FGetZmodFamily") =>
        /\ ~(FZmodIsADC(zmod.Pdid) /\ FZmodIsDAC(zmod.Pdid))
        /\ ~(FZmodIsADC(zmod.Pdid) /\ FZmodIsDigitizer(zmod.Pdid))
        /\ ~(FZmodIsDAC(zmod.Pdid) /\ FZmodIsDigitizer(zmod.Pdid))
        /\ FZmodIsDigitizer(zmod.Pdid) => zmod.family = "ZMOD_FAMILY_DIGITIZER"

(***************************************************************************)
(* Further properties of the fragmentation engine (specification Spec)      *)
(***************************************************************************)
\* C33: I2CHALWrite called through PmcuI2cWrite (cap 6) or SyzygyI2cWrite
\* (cap 34) never stores outside rgbSnd[32]: no store at an index of 32 or
\* above, and no transaction of more than 32 bytes is handed to the
\* transport.
C33_StagingInBounds ==
    (hal.fn = "write" /\ hal.entry \in {"PmcuI2cWrite", "SyzygyI2cWrite"}) =>
        /\ ~bus.oob
        /\ Len(hal.rgbSnd) <= cbSndBuf
        /\ (bus.tx.kind = "write" => bus.tx.len <= cbSndBuf)

\* C38: when I2CHALWrite returns success, the payload bytes of its
\* transactions (what follows the 2 address bytes of each), in transaction
\* order, are the caller's bytes 0..cbWrite-1 in order: the last transaction
\* carries the bytes that follow those sent before it, up to the last byte
\* of the buffer, and cbWrite bytes were carried in all.
C38_PayloadIsBuffer ==
    (WriteReturned /\ hal.ret = TRUE) =>
        /\ bus.xfer = hal.cb
        /\ hal.cb > 0 =>
              /\ bus.tx.kind = "write"
              /\ Len(bus.tx.frame) = 2 + (hal.cb - bus.tx.before)
              /\ \A i \in 3..Len(bus.tx.frame) :
                    bus.tx.frame[i] = SrcByte(bus.tx.before + (i - 3))

(***************************************************************************)
(* Further properties of the DNA readers (specification SpecDna)            *)
(***************************************************************************)
\* C35: whenever SyzygyReadDNAStrings returns after allocating, with true or
\* with false, each of the five string buffers holds a NUL within its
\* declared-length + 1 bytes.
C35_StringsTerminated ==
    (StringsRunning /\ dna.pc = "ret") =>
        \A k \in 1..Len(dna.strs) :
            /\ Len(dna.strs[k]) = dna.lens[k] + 1
            /\ \E i \in 1..Len(dna.strs[k]) : dna.strs[k][i] = 0

\* ---------------------------------------------------------------------------
\* Properties of the calibration printer (specification SpecCal)
\* ---------------------------------------------------------------------------

\* C31: FDisplayZmodDigitizerCal shows, for every frequency step and channel
\* of the record, the multiplicative coefficient of the stored gain and the
\* additive coefficient of the stored offset, the values that
\* FZmodDigitizerCalConvertToS18 produces for the same record.
C31_ShownIsConverted ==
    (cal.pc = "done" /\ cal.fn = "FDisplayZmodDigitizerCal") =>
        \A c \in 1..(4 * cbDigitizerCalibHzSteps) :
            cal.ret[c] = (IF c % 2 = 1
                          THEN ComputeMultCoefDigitizer(cal.rec[c], cal.fpu).out
                          ELSE ComputeAddCoefDigitizer(cal.rec[c], cal.fpu).out)


\* ---------------------------------------------------------------------------
\* Termination of the write loop (specification SpecCap)
\* ---------------------------------------------------------------------------

\* C34: I2CHALWrite terminates for every length and every cbDevRxMax: each
\* iteration that does not fail strictly increases the transferred-byte
\* counter, so the number of transactions never exceeds the requested length.
C34_TransactionsBounded ==
    hal.fn = "write" =>
        /\ bus.nAddr <= hal.cb
        /\ (hal.pc = "wr_wait" /\ bus.nAddr > 0) => hal.cbDone > 0

\* ---------------------------------------------------------------------------
\* Two operations on one bus handle (specification SpecPair)
\* ---------------------------------------------------------------------------

\* The bytes of the slave's memory from address a on, n of them.
PodBytes(a, n) == [ i \in 1..n |-> PodByte(bus.img, (a + (i - 1)) % WordMod) ]

\* A read has returned success having moved every byte in full transfers.
PairReadDone(h) ==
    h.pc = "ret" /\ h.ret = TRUE /\ h.cb > 0 /\ bus.nShort = 0

\* The addresses the slave's pointer can stand at when the data phase of h
\* runs: where h or the other operation g set it, or where the data phase
\* of g left it.
PointerStands(h, g) ==
    { h.addr0, g.addr0, (h.addr0 + g.cb) % WordMod, (g.addr0 + g.cb) % WordMod }

C37_HandleClosedOnce ==
    /\ cmd.closes <= cmd.opens
    /\ cmd.opens <= 1
    /\ ~cmd.late
    /\ (cmd.closes = 1) => cmd.pc = "done"
    /\ cmd.pc = "done" =>
          /\ cmd.closes = cmd.opens
          /\ cmd.ret => cmd.opens = 1
          /\ heap.live = { }
          /\ heap.fault = "none"
          /\ \A k \in 1..NumStrings : heap.sz[k] = 0

\* dpmutilFEnum has returned fFalse after a second round whose DNA strings
\* were allocated: handle closed once, every buffer freed.
C37_Witness ==
    /\ cmd.pc = "done"
    /\ cmd.fn = "dpmutilFEnum"
    /\ ~cmd.ret
    /\ cmd.opens = 1 /\ cmd.closes = 1
    /\ heap.next = 2 * NumStrings + 1
    /\ heap.live = { }

====
